---- MODULE Spec2Model ----
(***************************************************************************)
(* Courtroom simulation orchestrator of Jurix                              *)
(* (backend/routes/simulation_route.py) and the provider chain of         *)
(* BaseAgent.respond (backend/services/ai_services/ai_agents).            *)
(*                                                                         *)
(* Text is modelled as a sequence of tokens (a token is a word, a role    *)
(* marker, a blank or a run of separator characters); a transcript is a   *)
(* sequence of lines.                                                     *)
(***************************************************************************)
EXTENDS Integers, Sequences, FiniteSets, TLC

\* ------------------------------------------------------------------ bounds
\* at most this many evidence documents are stored for the case
MaxEvidence == 2
\* at most this many start requests are served for the case
MaxRuns == 2
\* at most this many respond calls are made on one agent
MaxCalls == 2
\* a transcript handed to the parser alone has at most this many lines
MaxLines == 6
\* run_agent_simulation on its own is given at most this many evidence records
MaxItems == 6
\* a result handed to the validator alone has at most this many turns
MaxTurns == 2
\* at most this many analyze_case and clear_memory calls are made on one agent
MaxOps == 3

\* ------------------------------------------------------- program constants
\* max_retries of the persistence loop
max_retries == 3
\* upper limit of evidence_analyzed accepted by validate_simulation_results
EvidenceLimit == 100
\* evidence_analysis[:5] in run_agent_simulation
EvidenceShown == 5
\* len(response.strip()) > 10 in BaseAgent.respond
MinResponseLen == 10

\* ---------------------------------------------------------------- text
Blank == " "

RECURSIVE LStrip(_)
LStrip(l) == IF l = <<>> THEN l
             ELSE IF Head(l) = Blank THEN LStrip(Tail(l)) ELSE l

RECURSIVE RStrip(_)
RStrip(l) == IF l = <<>> THEN l
             ELSE IF l[Len(l)] = Blank THEN RStrip(SubSeq(l, 1, Len(l) - 1)) ELSE l

\* str.strip() on a line of tokens
Strip(l) == RStrip(LStrip(l))

\* str.upper() on one token: the role words in the spellings the generators use
Upper(t) ==
    CASE t \in {"Judge:", "judge:"}     -> "JUDGE:"
      [] t \in {"Prosecutor", "prosecutor"} -> "PROSECUTOR"
      [] t \in {"Defense", "defense"}    -> "DEFENSE"
      [] t \in {"Witness", "witness"}    -> "WITNESS"
      [] t \in {"Court:", "court:"}      -> "COURT:"
      [] OTHER -> t

\* line.startswith('=') or line.startswith('-')
IsSeparatorTok(t) == t \in {"=", "-"}

RECURSIVE CharLen(_)
\* len() of a token sequence, in characters
CharLen(l) == IF l = <<>> THEN 0 ELSE Len(Head(l)) + CharLen(Tail(l))

RECURSIVE JoinBlank(_)
\* ' '.join(parts)
JoinBlank(parts) ==
    IF parts = <<>> THEN <<>>
    ELSE IF Len(parts) = 1 THEN parts[1]
    ELSE parts[1] \o <<Blank>> \o JoinBlank(Tail(parts))

\* ------------------------------------------------- parse_simulation_into_turns
\* the table with the roles of the two parties exchanged
role_markers_Swapped == << [marker |-> "JUDGE:",     role |-> "Judge"],
                           [marker |-> "PROSECUTOR", role |-> "Defense"],
                           [marker |-> "DEFENSE",    role |-> "Prosecutor"],
                           [marker |-> "WITNESS",    role |-> "Witness"],
                           [marker |-> "COURT:",     role |-> "Court"] >>

role_markers == << [marker |-> "JUDGE:",     role |-> "Judge"],
                   [marker |-> "PROSECUTOR", role |-> "Prosecutor"],
                   [marker |-> "DEFENSE",    role |-> "Defense"],
                   [marker |-> "WITNESS",    role |-> "Witness"],
                   [marker |-> "COURT:",     role |-> "Court"] >>

NoRole == "None"

\* marker in line.upper()
MarkerIn(m, l) == \E i \in 1..Len(l) : Upper(l[i]) = m

\* line.upper().find(marker): index of the first occurrence
MarkerFind(m, l) == CHOOSE i \in 1..Len(l) :
                        /\ Upper(l[i]) = m
                        /\ \A j \in 1..(i - 1) : Upper(l[j]) # m

\* the for/break loop over role_markers.items(): first marker, in dict order,
\* that occurs anywhere in the line
FoundMarkerIdx(l) ==
    IF \E k \in 1..Len(role_markers) : MarkerIn(role_markers[k].marker, l)
    THEN CHOOSE k \in 1..Len(role_markers) :
            /\ MarkerIn(role_markers[k].marker, l)
            /\ \A j \in 1..(k - 1) : ~MarkerIn(role_markers[j].marker, l)
    ELSE 0

\* f"{9 + (turn_number // 4):02d}:{(turn_number * 15) % 60:02d}:00"
\* the timestamp with the hour left at nine
TurnTimestamp_FixedHour(n) == [hh |-> 9, mm |-> (n * 15) % 60, ss |-> 0]

TurnTimestamp(n) == [hh |-> 9 + (n \div 4), mm |-> (n * 15) % 60, ss |-> 0]

\* len(message_text) // 20 + 3
TurnDuration(msg) == (CharLen(msg) \div 20) + 3

MakeTurn(n, role, msg) ==
    [turn_number |-> n, role |-> role, message |-> msg,
     timestamp |-> TurnTimestamp(n), duration |-> TurnDuration(msg)]

\* "Save previous turn" / "Add last turn": emits the open turn if it has text
FlushTurn(st) ==
    IF st.current_role # NoRole /\ st.current_message # <<>>
       /\ Strip(JoinBlank(st.current_message)) # <<>>
    THEN [st EXCEPT !.turns = Append(st.turns,
                        MakeTurn(st.turn_number, st.current_role,
                                 Strip(JoinBlank(st.current_message)))),
                    !.turn_number = st.turn_number + 1]
    ELSE st

\* one iteration of "for line in lines"
ParseLine(st, raw) ==
    LET line == Strip(raw) IN
    IF line = <<>> \/ IsSeparatorTok(Head(line)) THEN st
    ELSE LET k == FoundMarkerIdx(line) IN
         IF k # 0
         THEN LET rest == Strip(SubSeq(line, MarkerFind(role_markers[k].marker, line) + 1,
                                       Len(line)))
                  fl == FlushTurn(st)
              IN [fl EXCEPT !.current_role = role_markers[k].role,
                            !.current_message = IF rest # <<>> THEN <<rest>> ELSE <<>>]
         ELSE IF st.current_role # NoRole
              THEN [st EXCEPT !.current_message = Append(st.current_message, line)]
              ELSE st

RECURSIVE ParseLines(_, _)
ParseLines(st, lines) ==
    IF lines = <<>> THEN st ELSE ParseLines(ParseLine(st, Head(lines)), Tail(lines))

parse_simulation_into_turns(lines) ==
    FlushTurn(ParseLines([turns |-> <<>>, current_role |-> NoRole,
                          current_message |-> <<>>, turn_number |-> 0], lines)).turns


\* ------------------------------------------------------------ nullable values
\* None / absent
Null == <<>>
Some(v) == <<v>>
IsNull(o) == o = <<>>
Get(o) == o[1]

\* ------------------------------------------------------------ evidence store
\* outcome of master_parser on the stored file of an evidence item
ParseOutcomes == {"text", "error", "raise"}

EvidenceItems == [title : {"Exhibit"}, evidence_type : {"document"}, parse : ParseOutcomes]

RECURSIVE SeqsUpTo(_, _)
SeqsUpTo(S, n) == IF n = 0 THEN {<<>>}
                  ELSE SeqsUpTo(S, n - 1) \cup
                       {Append(q, x) : q \in {r \in SeqsUpTo(S, n - 1) : Len(r) = n - 1}, x \in S}

\* the strings analyze_case_evidence returns instead of a list
NoEvidenceText == "No evidence files found for this case."
ErrorEvidenceText == "Error analyzing evidence: ..."

EvList(items) == [kind |-> "list", items |-> items, text |-> ""]
EvStr(text) == [kind |-> "str", items |-> <<>>, text |-> text]

\* isinstance(evidence_analysis, str)
IsStr(ea) == ea.kind = "str"
\* len(evidence_analysis)
EvLen(ea) == IF IsStr(ea) THEN Len(ea.text) ELSE Len(ea.items)
\* truthiness of evidence_analysis
EvTruthy(ea) == EvLen(ea) > 0

\* the record appended for one evidence item whose parse did not raise
AnalyzedRecord(ev) ==
    [title |-> ev.title, type |-> ev.evidence_type,
     content |-> IF ev.parse = "text" THEN "text" ELSE "{'error': ...}"]

\* analyze_case_evidence; storeUp = FALSE when list_evidences raises
analyze_case_evidence(evs, storeUp) ==
    IF ~storeUp THEN EvStr(ErrorEvidenceText)
    ELSE IF evs = <<>> THEN EvStr(NoEvidenceText)
    ELSE IF \E i \in 1..Len(evs) : evs[i].parse = "raise" THEN EvStr(ErrorEvidenceText)
    ELSE EvList([i \in 1..Len(evs) |-> AnalyzedRecord(evs[i])])

\* "No evidence files found" in evidence_analysis
MentionsNoEvidence(ea) == ea.text = NoEvidenceText

\* ---------------------------------------------------------------- generators
\* strings an agent action can return
Utterances == { <<"We", " ", "rest.">>,
                <<"The", " ", "defense", " ", "is", " ", "wrong.">> }

\* the separator line "=" * 60
Rule == <<"=">>

RECURSIVE EvidenceLines(_, _)
\* the pairs of lines of the evidence presentation loop
EvidenceLines(n, u) ==
    IF n = 0 THEN <<>>
    ELSE EvidenceLines(n - 1, u) \o
         << <<"PROSECUTOR", " ", "(Evidence N):", " ">> \o u,
            <<"DEFENSE", " ", "(Cross-exam):", " ">> \o u,
            <<>> >>

Min(a, b) == IF a < b THEN a ELSE b

\* transcript assembled by run_agent_simulation from the agents' strings
AgentTranscript(ea, u) ==
    << Rule, <<"COURT", " ", "SESSION", " ", "BEGINS">>, Rule,
       <<"JUDGE:", " ">> \o u, <<>>,
       <<"PROSECUTOR", "'S", " ", "OPENING:">>, u, <<>>,
       <<"DEFENSE", "'S", " ", "OPENING:">>, u, <<>>,
       <<"EVIDENCE", " ", "PRESENTATION:">> >>
    \o EvidenceLines(Min(EvLen(ea), EvidenceShown), u) \o
    << <<"CLOSING", " ", "ARGUMENTS:">>,
       <<"PROSECUTOR", ":", " ">> \o u,
       <<"DEFENSE", ":", " ">> \o u,
       <<>>,
       <<"COURT", "'S", " ", "DECISION:">>, u,
       Rule, <<"COURT", " ", "SESSION", " ", "ENDS">>, Rule >>

\* the thinking map returned by run_agent_simulation
AgentThinking == [k \in {"prosecutor_thoughts", "defense_thoughts", "judge_thoughts"}
                    |-> <<"thought">>]
\* {} : no thinking processes
NoThinking == [k \in {} |-> <<>>]

\* whether run_agent_simulation raises on this evidence analysis by itself:
\* _summarize_evidence calls item.get on the characters of a string
AgentRaisesOn(ea) == IsStr(ea) /\ EvTruthy(ea)

\* whether generate_openai_simulation raises on it: e['summary'] on a character
RemoteRaisesOn(ea) == IsStr(ea) /\ EvTruthy(ea)

\* whether generate_static_fallback raises on it: ev.get on a character
StaticRaisesOn(ea) == IsStr(ea) /\ EvTruthy(ea)

\* resp.choices[0].message.content values the remote model can deliver
RemoteTranscripts ==
    { Null,
      Some(<< <<>> >>),
      Some(<< <<" ">> >>),
      Some(<< <<"Once", " ", "upon", " ", "a", " ", "time.">> >>),
      Some(<< <<"Judge:", " ", "Order.">>, <<"Prosecutor", ":", " ", "We", " ", "allege.">> >>) }

RECURSIVE StaticEvidenceLines(_)
StaticEvidenceLines(n) ==
    IF n = 0 THEN <<>>
    ELSE StaticEvidenceLines(n - 1) \o << <<"Evidence", " ", "N:", " ", "Exhibit", " ", "(document)">> >>

\* transcript of generate_static_fallback
StaticTranscript(ea) ==
    << <<"COURTROOM", " ", "SIMULATION", " ", "-", " ", "Title">>,
       <<"CASE", " ", "DESCRIPTION:", " ", "Description">>,
       <<>>,
       <<"COURT", " ", "IN", " ", "SESSION">>,
       <<"Judge:", " ", "Court", " ", "is", " ", "now", " ", "in", " ", "session.">>,
       <<>>,
       <<"OPENING", " ", "STATEMENTS:">>,
       <<"Plaintiff", " ", "Attorney:", " ", "We-will-show.">>,
       <<"Defense", " ", "Attorney:", " ", "We-disagree.">>,
       <<>>,
       <<"EVIDENCE", " ", "SUMMARY:">> >>
    \o StaticEvidenceLines(EvLen(ea)) \o
    << <<>>,
       <<"LEGAL", " ", "ARGUMENTS:", " ", "Both-sides.">>,
       <<>>,
       <<"COURT", "'S", " ", "DECISION:", " ", "Simulated.">>,
       <<>>,
       <<"Simulation", " ", "generated", " ", "at:", " ", "now">> >>

\* ------------------------------------------------- validate_simulation_results
required_fields == << "simulation_id", "simulation_text", "turns", "thinking_processes",
                      "evidence_analyzed", "simulation_type", "generated_at", "status" >>

\* the set without the estimated duration
required_turn_fields_Four == {"turn_number", "role", "message", "timestamp"}

required_turn_fields == {"turn_number", "role", "message", "timestamp", "duration"}

valid_types == {"local_agents", "openai", "static_fallback", "hybrid"}

valid_statuses == {"completed", "failed", "partial"}

\* isinstance(results[field], expected_type): only the transcript can be None
HasType(results, f) == IF f = "simulation_text" THEN ~IsNull(results[f]) ELSE TRUE

\* results['simulation_text'].strip() is empty
TextBlank(lines) == \A i \in 1..Len(lines) : Strip(lines[i]) = <<>>

FieldProblems(results) ==
    {k \in 1..Len(required_fields) :
        \/ required_fields[k] \notin DOMAIN results
        \/ ~HasType(results, required_fields[k])}

FirstOf(S) == CHOOSE k \in S : \A j \in S : k <= j

\* the error message of validate_simulation_results, "" when the result is valid
validate_simulation_results(results) ==
    IF FieldProblems(results) # {}
    THEN IF required_fields[FirstOf(FieldProblems(results))] \notin DOMAIN results
         THEN "Missing required field: " \o required_fields[FirstOf(FieldProblems(results))]
         ELSE "Invalid type for " \o required_fields[FirstOf(FieldProblems(results))]
    ELSE IF \E i \in 1..Len(results.turns) :
                required_turn_fields \ DOMAIN results.turns[i] # {}
    THEN "Turn missing required fields"
    ELSE IF TextBlank(Get(results.simulation_text))
    THEN "Simulation text cannot be empty"
    ELSE IF ~(0 <= results.evidence_analyzed /\ results.evidence_analyzed <= EvidenceLimit)
    THEN "Invalid evidence count"
    ELSE IF results.simulation_type \notin valid_types
    THEN "Invalid simulation type: " \o results.simulation_type
    ELSE IF results.status \notin valid_statuses
    THEN "Invalid status: " \o results.status
    ELSE ""


\* =========================================================================
\* start_courtroom_simulation, one stage per step
\* =========================================================================
VARIABLES
    db_case,            \* the case document in the case collection, or Null
    db_evidence,        \* the evidence documents of the case, in storage order
    run,                \* number of start requests served so far
    pc,                 \* position of the current request in the handler
    case,               \* the case document read at the start of the request
    evidence_analysis,  \* local evidence_analysis
    sim_out,            \* local sim_out
    simulation_type,    \* local simulation_type
    turns,              \* local turns (output of parse_simulation_into_turns)
    simulation_results, \* local simulation_results
    validated,          \* the argument validate_simulation_results accepted, or Null
    retry_count,        \* local retry_count
    response,           \* the HTTP response of the request, or Null
    calls,              \* collaborators and stages invoked by the request, in order
    outcome             \* how each transcript path ended in this request

orchVars == << db_case, db_evidence, run, pc, case, evidence_analysis, sim_out,
               simulation_type, turns, simulation_results, validated, retry_count,
               response, calls, outcome >>

allowed_states == {"ready_for_simulation", "draft", "evidence_uploaded"}

\* statuses a case document can carry: 'draft' from create_new_case, the others from
\* update_case_status
InitialStatuses == {"draft", "ready_for_simulation", "completed"}

NoOutcome == [agent |-> "not_run", remote |-> "not_run", static |-> "not_run"]

NoSimOut == [transcript |-> Null, thinking_processes |-> NoThinking, provider |-> ""]

NoResults == [simulation_id |-> 0]

ErrorResponse(code, msg, detail) ==
    Some([code |-> code, error |-> msg, detail |-> detail, type |-> "", id |-> 0])

SuccessResponse(id, type) ==
    Some([code |-> 200, error |-> "", detail |-> "", type |-> type, id |-> id])

\* the outer "except Exception" of the handler
SimulationFailed == ErrorResponse(500, "Simulation failed", "")

OrchInit ==
    /\ db_case \in { Some([status |-> s, has_evidence |-> h, simulation_results |-> Null]) :
                        s \in InitialStatuses, h \in BOOLEAN }
    /\ db_evidence \in SeqsUpTo(EvidenceItems, MaxEvidence)
    /\ run = 0
    /\ pc = "idle"
    /\ case = Null
    /\ evidence_analysis = EvList(<<>>)
    /\ sim_out = NoSimOut
    /\ simulation_type = ""
    /\ turns = <<>>
    /\ simulation_results = NoResults
    /\ validated = Null
    /\ retry_count = 0
    /\ response = Null
    /\ calls = <<>>
    /\ outcome = NoOutcome

\* lines 287-309: request arrives, the case is read and its state checked
StartRequest ==
    /\ pc \in {"idle", "done"}
    /\ run < MaxRuns
    /\ run' = run + 1
    /\ evidence_analysis' = EvList(<<>>)
    /\ sim_out' = NoSimOut
    /\ simulation_type' = ""
    /\ turns' = <<>>
    /\ simulation_results' = NoResults
    /\ validated' = Null
    /\ retry_count' = 0
    /\ calls' = <<"get_case_by_id">>
    /\ outcome' = NoOutcome
    /\ \E dbUp \in BOOLEAN :
         IF ~dbUp
         THEN /\ case' = Null
              /\ response' = SimulationFailed
              /\ pc' = "done"
         ELSE IF IsNull(db_case)
         THEN /\ case' = Null
              /\ response' = ErrorResponse(404, "Case not found", "")
              /\ pc' = "done"
         ELSE IF Get(db_case).status \notin allowed_states
         THEN /\ case' = db_case
              /\ response' = ErrorResponse(400, "Case must be in one of these states",
                                           Get(db_case).status)
              /\ pc' = "done"
         ELSE /\ case' = db_case
              /\ response' = Null
              /\ pc' = "evidence"
    /\ UNCHANGED << db_case, db_evidence >>

\* lines 311-328: Step 1, evidence analysis
EvidenceAnalysis ==
    /\ pc = "evidence"
    /\ IF ~Get(case).has_evidence
       THEN /\ evidence_analysis' = EvList(<<>>)
            /\ calls' = calls
            /\ response' = Null
            /\ pc' = "agent"
       ELSE \E storeUp \in BOOLEAN :
              LET r == analyze_case_evidence(db_evidence, storeUp) IN
              /\ evidence_analysis' = r
              /\ calls' = Append(calls, "analyze_case_evidence")
              /\ IF IsStr(r) /\ ~MentionsNoEvidence(r)
                 THEN /\ response' = ErrorResponse(400, r.text, "")
                      /\ pc' = "done"
                 ELSE /\ response' = Null
                      /\ pc' = "agent"
    /\ UNCHANGED << db_case, db_evidence, run, case, sim_out, simulation_type, turns,
                    simulation_results, validated, retry_count, outcome >>

\* lines 330-335 and 217-280: Step 2, the agent-driven simulation
AgentSimulation ==
    /\ pc = "agent"
    /\ calls' = Append(calls, "run_agent_simulation")
    /\ \E fails \in BOOLEAN, u \in Utterances :
         IF fails \/ AgentRaisesOn(evidence_analysis)
         THEN /\ outcome' = [outcome EXCEPT !.agent = "raised"]
              /\ pc' = "remote"
              /\ UNCHANGED << sim_out, simulation_type >>
         ELSE /\ outcome' = [outcome EXCEPT !.agent = "returned"]
              /\ sim_out' = [transcript |-> Some(AgentTranscript(evidence_analysis, u)),
                             thinking_processes |-> AgentThinking,
                             provider |-> "local_agents"]
              /\ simulation_type' = "local_agents"
              /\ pc' = "parse"
    /\ UNCHANGED << db_case, db_evidence, run, case, evidence_analysis, turns,
                    simulation_results, validated, retry_count, response >>

\* Step 3 labelling its result with the provider name of the design document
RemoteFallback_Relabel ==
    /\ pc = "remote"
    /\ calls' = Append(calls, "generate_openai_simulation")
    /\ \E fails \in BOOLEAN, t \in RemoteTranscripts :
         IF fails \/ RemoteRaisesOn(evidence_analysis)
         THEN /\ outcome' = [outcome EXCEPT !.remote = "raised"]
              /\ pc' = "static"
              /\ UNCHANGED << sim_out, simulation_type >>
         ELSE /\ outcome' = [outcome EXCEPT !.remote = "returned"]
              /\ sim_out' = [transcript |-> t, thinking_processes |-> NoThinking,
                             provider |-> "openai"]
              /\ simulation_type' = "remote_llm"
              /\ pc' = "parse"
    /\ UNCHANGED << db_case, db_evidence, run, case, evidence_analysis, turns,
                    simulation_results, validated, retry_count, response >>

\* lines 336-343 and 138-183: Step 3, one call to the remote model
RemoteFallback ==
    /\ pc = "remote"
    /\ calls' = Append(calls, "generate_openai_simulation")
    /\ \E fails \in BOOLEAN, t \in RemoteTranscripts :
         IF fails \/ RemoteRaisesOn(evidence_analysis)
         THEN /\ outcome' = [outcome EXCEPT !.remote = "raised"]
              /\ pc' = "static"
              /\ UNCHANGED << sim_out, simulation_type >>
         ELSE /\ outcome' = [outcome EXCEPT !.remote = "returned"]
              /\ sim_out' = [transcript |-> t, thinking_processes |-> NoThinking,
                             provider |-> "openai"]
              /\ simulation_type' = "openai"
              /\ pc' = "parse"
    /\ UNCHANGED << db_case, db_evidence, run, case, evidence_analysis, turns,
                    simulation_results, validated, retry_count, response >>

\* lines 344-350 and 186-214: Step 4, the static script; an exception here is
\* caught only by the outer handler
StaticFallback ==
    /\ pc = "static"
    /\ calls' = Append(calls, "generate_static_fallback")
    /\ IF StaticRaisesOn(evidence_analysis)
       THEN /\ outcome' = [outcome EXCEPT !.static = "raised"]
            /\ response' = SimulationFailed
            /\ pc' = "done"
            /\ UNCHANGED << sim_out, simulation_type >>
       ELSE /\ outcome' = [outcome EXCEPT !.static = "returned"]
            /\ sim_out' = [transcript |-> Some(StaticTranscript(evidence_analysis)),
                           thinking_processes |-> NoThinking,
                           provider |-> "static_fallback"]
            /\ simulation_type' = "static_fallback"
            /\ response' = Null
            /\ pc' = "parse"
    /\ UNCHANGED << db_case, db_evidence, run, case, evidence_analysis, turns,
                    simulation_results, validated, retry_count >>

\* lines 353-357: the transcript is parsed into turns; None.split raises
TurnParsing ==
    /\ pc = "parse"
    /\ calls' = Append(calls, "parse_simulation_into_turns")
    /\ IF IsNull(sim_out.transcript)
       THEN /\ response' = SimulationFailed
            /\ pc' = "done"
            /\ turns' = turns
       ELSE /\ turns' = parse_simulation_into_turns(Get(sim_out.transcript))
            /\ response' = Null
            /\ pc' = "validate"
    /\ UNCHANGED << db_case, db_evidence, run, case, evidence_analysis, sim_out,
                    simulation_type, simulation_results, validated, retry_count, outcome >>

\* lines 412-422: the result as built before validation
PreparedResults ==
    [simulation_id |-> run,
     simulation_text |-> sim_out.transcript,
     turns |-> <<>>,
     thinking_processes |-> sim_out.thinking_processes,
     evidence_analyzed |-> IF EvTruthy(evidence_analysis) THEN EvLen(evidence_analysis) ELSE 0,
     simulation_type |-> simulation_type,
     generated_at |-> "utcnow",
     status |-> "completed"]

\* validation whose verdict is logged but not acted upon
ResultValidation_Ignore ==
    /\ pc = "validate"
    /\ calls' = Append(calls, "validate_simulation_results")
    /\ simulation_results' = PreparedResults
    /\ LET error_message == validate_simulation_results(PreparedResults) IN
       /\ response' = Null
       /\ validated' = IF error_message # "" THEN Null ELSE Some(PreparedResults)
       /\ pc' = "populate"
    /\ UNCHANGED << db_case, db_evidence, run, case, evidence_analysis, sim_out,
                    simulation_type, turns, retry_count, outcome >>

\* lines 424-428
ResultValidation ==
    /\ pc = "validate"
    /\ calls' = Append(calls, "validate_simulation_results")
    /\ simulation_results' = PreparedResults
    /\ LET error_message == validate_simulation_results(PreparedResults) IN
       IF error_message # ""
       THEN /\ response' = ErrorResponse(400, "Invalid simulation results", error_message)
            /\ validated' = Null
            /\ pc' = "done"
       ELSE /\ response' = Null
            /\ validated' = Some(PreparedResults)
            /\ pc' = "populate"
    /\ UNCHANGED << db_case, db_evidence, run, case, evidence_analysis, sim_out,
                    simulation_type, turns, retry_count, outcome >>

\* sim_out.get("thinking_processes", {}).get(turn["role"], "")
ThinkingOf(th, role) == IF role \in DOMAIN th THEN th[role] ELSE <<>>

\* lines 430-436: one turn_with_thinking
TurnWithThinking(turn, th) ==
    [turn_number |-> turn.turn_number, role |-> turn.role, message |-> turn.message,
     timestamp |-> turn.timestamp, duration |-> turn.duration,
     thinking_process |-> ThinkingOf(th, turn.role)]

\* lines 430-472: turns are appended to the result, reports are generated (their
\* failures are swallowed) and the document to save is prepared
PopulateTurns ==
    /\ pc = "populate"
    /\ simulation_results' =
          [simulation_results EXCEPT !.turns =
              [i \in 1..Len(turns) |-> TurnWithThinking(turns[i], sim_out.thinking_processes)]]
    /\ retry_count' = 0
    /\ pc' = "persist_update"
    /\ UNCHANGED << db_case, db_evidence, run, case, evidence_analysis, sim_out,
                    simulation_type, turns, validated, response, calls, outcome >>


\* ------------------------------------------------ lines 474-516: save with retries
\* the fields the read-back looks for in the saved results
saved_required_fields == {"simulation_id", "simulation_text", "turns", "status"}

\* "while retry_count < max_retries"
LoopContinues(rc) == rc < max_retries

\* the test after the loop, off by one
RetriesExhausted_OffByOne(rc) == rc > max_retries

\* "if retry_count >= max_retries" after the loop
RetriesExhausted(rc) == rc >= max_retries

SaveFailed == ErrorResponse(500, "Failed to save simulation results after multiple attempts", "")

\* the loop is left with retry_count = rc: lines 515-535
LeaveLoop(rc) ==
    /\ pc' = "done"
    /\ response' = IF RetriesExhausted(rc) THEN SaveFailed
                   ELSE SuccessResponse(simulation_results.simulation_id, simulation_type)

\* "retry_count += 1; continue" and the except branch
AttemptFailed ==
    /\ retry_count' = retry_count + 1
    /\ IF LoopContinues(retry_count + 1)
       THEN /\ pc' = "persist_update"
            /\ response' = Null
       ELSE LeaveLoop(retry_count + 1)

\* update_case (case_model.py): one $set of the simulation document
ApplyUpdate(doc, results) ==
    [doc EXCEPT !.simulation_results = Some(results), !.status = "completed"]

\* line 480: save_ok = update_case(case_id, simulation_document)
PersistUpdate ==
    /\ pc = "persist_update"
    /\ calls' = Append(calls, "update_case")
    /\ \E dbUp \in BOOLEAN :
         IF ~dbUp \/ IsNull(db_case)
         THEN /\ AttemptFailed
              /\ db_case' = db_case
         ELSE /\ db_case' = Some(ApplyUpdate(Get(db_case), simulation_results))
              /\ pc' = "persist_readback"
              /\ UNCHANGED << retry_count, response >>
    /\ UNCHANGED << db_evidence, run, case, evidence_analysis, sim_out, simulation_type,
                    turns, simulation_results, validated, outcome >>

\* whether the read-back document passes lines 488-506
ReadBackVerified(doc) ==
    /\ ~IsNull(doc)
    /\ ~IsNull(Get(doc).simulation_results)
    /\ \A f \in saved_required_fields : f \in DOMAIN Get(Get(doc).simulation_results)

\* lines 487-509: updated_case = get_case_by_id(case_id) and the checks on it
PersistReadback ==
    /\ pc = "persist_readback"
    /\ calls' = Append(calls, "get_case_by_id")
    /\ \E dbUp \in BOOLEAN :
         IF dbUp /\ ReadBackVerified(db_case)
         THEN /\ LeaveLoop(retry_count)
              /\ retry_count' = retry_count
         ELSE AttemptFailed
    /\ UNCHANGED << db_case, db_evidence, run, case, evidence_analysis, sim_out,
                    simulation_type, turns, simulation_results, validated, outcome >>

\* delete_case (case_model.py), issued by another client of the store
DeleteCase ==
    /\ ~IsNull(db_case)
    /\ db_case' = Null
    /\ UNCHANGED << db_evidence, run, pc, case, evidence_analysis, sim_out, simulation_type,
                    turns, simulation_results, validated, retry_count, response, calls,
                    outcome >>


\* =========================================================================
\* BaseAgent (base_agent.py): one agent and its respond calls
\* =========================================================================
VARIABLES
    role,               \* self.role
    gemini_available,   \* self.gemini_available (self.gemini is set exactly when it holds)
    ollama_available,   \* self.ollama_available
    ollama_up,          \* whether the local provider answers its /api/tags probe now
    probe_result,       \* what self.ollama.is_available() returned in __init__
    thinking_process,   \* self.thinking_process
    ncalls,             \* respond calls made so far
    last_call           \* the latest respond call: inputs, tiers attempted, value returned

agentVars == << role, gemini_available, ollama_available, ollama_up, probe_result,
               thinking_process, ncalls, last_call >>

\* ---- parse_simulation_into_turns called on its own
VARIABLES
    p_transcript,       \* the argument transcript, as lines
    p_turns             \* the list returned, or Null before the call

parseVars == << p_transcript, p_turns >>

\* ---- run_agent_simulation, one agent call per step
VARIABLES
    a_evidence,         \* the argument evidence_analysis: the titles of its records
    a_pc,               \* the agent call that comes next
    a_i,                \* loop variable i of the evidence presentation
    a_log,              \* the agent calls made so far
    a_transcript        \* local transcript (list of lines)

pathVars == << a_evidence, a_pc, a_i, a_log, a_transcript >>

\* ---- validate_simulation_results called on its own
VARIABLES
    v_results,          \* the argument results
    v_verdict           \* the error message returned ("" when valid), or Null before the call

validateVars == << v_results, v_verdict >>

\* ---- the memory of an agent
VARIABLES
    case_memory,        \* self.case_memory
    agent_evidence,     \* self.evidence_analysis
    role_strategy,      \* prosecution_strategy / defense_strategy / case_management_notes
    last_op,            \* the latest analyze_case or clear_memory call and what it returned
    before_clear,       \* self.case_memory as it was when clear_memory was last called
    nops                \* calls made so far

memVars == << case_memory, agent_evidence, role_strategy, last_op, before_clear, nops >>

\* ---- what the role classes add to an agent
VARIABLES
    evidence_strength_map,      \* ProsecutorAgent.evidence_strength_map
    reasonable_doubt_points,    \* DefenseAgent.reasonable_doubt_points
    judicial_decisions,         \* JudgeAgent.judicial_decisions
    evidence_rulings,           \* JudgeAgent.evidence_rulings
    last_prompt                 \* the prompt the latest role action passed to respond

roleVars == << evidence_strength_map, reasonable_doubt_points, judicial_decisions,
               evidence_rulings, last_prompt >>

vars == << db_case, db_evidence, run, pc, case, evidence_analysis, sim_out,
           simulation_type, turns, simulation_results, validated, retry_count,
           response, calls, outcome,
           role, gemini_available, ollama_available, ollama_up, probe_result,
           thinking_process, ncalls, last_call,
           parseVars, pathVars, validateVars, memVars, roleVars >>

Roles == {"prosecutor", "defense attorney", "judge"}

\* the entry appended by think(situation, category)
Thought(r, category) == [category |-> category, role |-> r]

\* ---- what a provider call can do: raise, or return None or a text
ProviderReplies ==
    { Null,
      Some(<<" ", "Sustained.", " ">>),
      Some(<<"Overruled..">>),
      Some(<<"As a judge", " ", "I", " ", "so", " ", "rule">>) }

ProviderOutcomes ==
    { [asked |-> TRUE, raises |-> TRUE, reply |-> Null] } \cup
    { [asked |-> TRUE, raises |-> FALSE, reply |-> r] : r \in ProviderReplies }

\* the provider is not called at all
NotAsked == [asked |-> FALSE, raises |-> FALSE, reply |-> Null]

\* "response and len(response.strip()) > 10"
Succeeds(reply) ==
    /\ ~IsNull(reply)
    /\ Get(reply) # <<>>
    /\ CharLen(Strip(Get(reply))) > MinResponseLen

\* ---- _post_process_response
HasDot(l) == \E i \in 1..Len(l) : l[i] = "."

FirstDot(l) == CHOOSE i \in 1..Len(l) : l[i] = "." /\ \A j \in 1..(i - 1) : l[j] # "."

RECURSIVE SplitDot(_)
\* response.split('.')
SplitDot(l) == IF ~HasDot(l) THEN <<l>>
               ELSE <<SubSeq(l, 1, FirstDot(l) - 1)>> \o SplitDot(SubSeq(l, FirstDot(l) + 1, Len(l)))

RECURSIVE JoinDot(_)
\* '. '.join(parts)
JoinDot(parts) ==
    IF parts = <<>> THEN <<>>
    ELSE IF Len(parts) = 1 THEN parts[1]
    ELSE parts[1] \o <<".", " ">> \o JoinDot(Tail(parts))

\* one iteration of "for prefix in role_prefixes"
DropPrefix(r, prefix) ==
    IF r # <<>> /\ Head(r) = prefix /\ CharLen(SplitDot(r)[1]) < 50
    THEN Strip(JoinDot(Tail(SplitDot(r))))
    ELSE r

_post_process_response(r, text) ==
    DropPrefix(DropPrefix(DropPrefix(Strip(text), "As a " \o r), "As the " \o r),
               "I am a " \o r)

\* ---- _generate_enhanced_fallback
\* the context strings the role actions pass to respond, cut at the keywords
Contexts ==
    { <<"opening", " ", "court", " ", "session">>,
      <<"witness", " ", "credibility", " ", "challenge">> }

\* any(word in context_lower for word in words)
AnyWordIn(words, ctx) == \E i \in 1..Len(ctx) : ctx[i] \in words

\* the if/elif chain over the context
FallbackCategory(ctx) ==
    IF AnyWordIn({"opening", "statement", "begin"}, ctx) THEN "opening"
    ELSE IF AnyWordIn({"evidence", "present", "exhibit"}, ctx) THEN "evidence"
    ELSE IF AnyWordIn({"closing", "final", "argument"}, ctx) THEN "closing"
    ELSE IF AnyWordIn({"objection", "rule", "sustain"}, ctx) THEN "objection"
    ELSE IF AnyWordIn({"cross", "examine", "question"}, ctx) THEN "cross"
    ELSE "general"

\* the categories for which the role's class overrides _get_*_response with
\* random.choice over a list of canned responses
RandomisedCategories(r) ==
    IF r = "defense attorney" THEN {"opening", "evidence", "closing", "cross"}
    ELSE {"opening", "evidence", "closing"}

\* number of canned responses in each such list
CannedCount == 3

\* the entries of such a list
CannedName == [k \in 1..CannedCount |-> IF k = 1 THEN "first" ELSE IF k = 2 THEN "second"
                                        ELSE "other"]

\* the canned response returned for a context; pick is random.choice's draw
_generate_enhanced_fallback(r, ctx, pick) ==
    IF FallbackCategory(ctx) \in RandomisedCategories(r)
    THEN <<r, FallbackCategory(ctx), "canned", CannedName[pick]>>
    ELSE <<r, FallbackCategory(ctx), "base">>

\* ---- respond
\* Tier 1 without the return after a successful answer: the call falls through
TryGemini_NoReturn(r, ga, g) ==
    IF ~ga THEN [tried |-> FALSE, ok |-> FALSE, log |-> <<>>]
    ELSE IF g.raises THEN [tried |-> TRUE, ok |-> FALSE, log |-> <<Thought(r, "gemini_error")>>]
    ELSE IF Succeeds(g.reply)
         THEN [tried |-> TRUE, ok |-> FALSE, log |-> <<Thought(r, "gemini_success")>>]
         ELSE [tried |-> TRUE, ok |-> FALSE, log |-> <<>>]

\* Tier 1
TryGemini(r, ga, g) ==
    IF ~ga THEN [tried |-> FALSE, ok |-> FALSE, log |-> <<>>]
    ELSE IF g.raises THEN [tried |-> TRUE, ok |-> FALSE, log |-> <<Thought(r, "gemini_error")>>]
    ELSE IF Succeeds(g.reply)
         THEN [tried |-> TRUE, ok |-> TRUE, log |-> <<Thought(r, "gemini_success")>>]
         ELSE [tried |-> TRUE, ok |-> FALSE, log |-> <<>>]

\* Tier 2 with an except branch that records nothing
TryOllama_Swallow(r, oa, o) ==
    IF ~oa THEN [tried |-> FALSE, ok |-> FALSE, log |-> <<>>]
    ELSE IF o.raises
         THEN [tried |-> TRUE, ok |-> FALSE, log |-> <<Thought(r, "ollama_attempt")>>]
    ELSE IF Succeeds(o.reply)
         THEN [tried |-> TRUE, ok |-> TRUE,
               log |-> <<Thought(r, "ollama_attempt"), Thought(r, "ollama_success")>>]
         ELSE [tried |-> TRUE, ok |-> FALSE, log |-> <<Thought(r, "ollama_attempt")>>]

\* Tier 2
TryOllama(r, oa, o) ==
    IF ~oa THEN [tried |-> FALSE, ok |-> FALSE, log |-> <<>>]
    ELSE IF o.raises
         THEN [tried |-> TRUE, ok |-> FALSE,
               log |-> <<Thought(r, "ollama_attempt"), Thought(r, "ollama_error")>>]
    ELSE IF Succeeds(o.reply)
         THEN [tried |-> TRUE, ok |-> TRUE,
               log |-> <<Thought(r, "ollama_attempt"), Thought(r, "ollama_success")>>]
         ELSE [tried |-> TRUE, ok |-> FALSE, log |-> <<Thought(r, "ollama_attempt")>>]

\* respond whose static tier returns without recording a thought
RespondCall_Unlogged(r, ga, oa, g, o, ctx, pick) ==
    LET t1 == TryGemini(r, ga, g)
        t2 == TryOllama(r, oa, o)
        first == <<Thought(r, "response")>>
    IN IF t1.ok
       THEN [appended |-> first \o t1.log,
             attempts |-> <<"gemini">>,
             tier |-> "gemini",
             text |-> _post_process_response(r, Get(g.reply))]
       ELSE IF t2.ok
       THEN [appended |-> first \o t1.log \o t2.log,
             attempts |-> (IF t1.tried THEN <<"gemini">> ELSE <<>>) \o <<"ollama">>,
             tier |-> "ollama",
             text |-> _post_process_response(r, Get(o.reply))]
       ELSE [appended |-> first \o t1.log \o t2.log,
             attempts |-> (IF t1.tried THEN <<"gemini">> ELSE <<>>) \o
                          (IF t2.tried THEN <<"ollama">> ELSE <<>>) \o <<"static">>,
             tier |-> "static",
             text |-> _generate_enhanced_fallback(r, ctx, pick)]

\* the whole of respond: entries appended, tiers attempted in order, the tier
\* whose text is returned and the text
RespondCall(r, ga, oa, g, o, ctx, pick) ==
    LET t1 == TryGemini(r, ga, g)
        t2 == TryOllama(r, oa, o)
        first == <<Thought(r, "response")>>
    IN IF t1.ok
       THEN [appended |-> first \o t1.log,
             attempts |-> <<"gemini">>,
             tier |-> "gemini",
             text |-> _post_process_response(r, Get(g.reply))]
       ELSE IF t2.ok
       THEN [appended |-> first \o t1.log \o t2.log,
             attempts |-> (IF t1.tried THEN <<"gemini">> ELSE <<>>) \o <<"ollama">>,
             tier |-> "ollama",
             text |-> _post_process_response(r, Get(o.reply))]
       ELSE [appended |-> first \o t1.log \o t2.log \o <<Thought(r, "static_fallback")>>,
             attempts |-> (IF t1.tried THEN <<"gemini">> ELSE <<>>) \o
                          (IF t2.tried THEN <<"ollama">> ELSE <<>>) \o <<"static">>,
             tier |-> "static",
             text |-> _generate_enhanced_fallback(r, ctx, pick)]

NoCall == [made |-> FALSE, gemini |-> NotAsked, ollama |-> NotAsked, before |-> 0,
           up |-> FALSE,
           context |-> <<>>, appended |-> <<>>, attempts |-> <<>>, tier |-> "", text |-> <<>>]

\* BaseAgent.__init__: the provider flags are probed once
AgentInit ==
    /\ role \in Roles
    /\ gemini_available \in BOOLEAN
    /\ ollama_up \in BOOLEAN
    /\ probe_result = ollama_up
    /\ ollama_available = probe_result
    /\ thinking_process = <<>>
    /\ ncalls = 0
    /\ last_call = NoCall

\* what the remote provider can do in a call: it is called only when the flag is set
GeminiChoices == IF gemini_available THEN ProviderOutcomes ELSE {NotAsked}

\* "if self.ollama_available and self.ollama" with a probe made in every call
LocalTierEnabled_Reprobe == ollama_up

\* "if self.ollama_available and self.ollama": the flag set in __init__
LocalTierEnabled == ollama_available

\* what the local provider does when it is called: generate_response of a provider
\* that is down fails (it raises, or returns None after catching the error)
LocalOutcomes ==
    IF ollama_up THEN ProviderOutcomes
    ELSE {[asked |-> TRUE, raises |-> TRUE, reply |-> Null],
          [asked |-> TRUE, raises |-> FALSE, reply |-> Null]}

\* the local provider is called only when its flag is set and tier 1 did not succeed
OllamaChoices(g) ==
    IF LocalTierEnabled /\ ~TryGemini(role, gemini_available, g).ok
    THEN LocalOutcomes ELSE {NotAsked}

\* the static generator runs only when neither tier succeeded; random.choice draws
\* only in the categories the role overrides
StaticChoices(g, o) ==
    IF \/ TryGemini(role, gemini_available, g).ok
       \/ TryOllama(role, LocalTierEnabled, o).ok
    THEN {[context |-> <<>>, pick |-> 0]}
    ELSE {[context |-> c, pick |-> k] : c \in Contexts, k \in 1..CannedCount}

\* one respond call, with what the providers do when they are called
Respond ==
    /\ ncalls < MaxCalls
    /\ \E g \in GeminiChoices :
       \E o \in OllamaChoices(g) :
       \E st \in StaticChoices(g, o) :
         LET res == RespondCall(role, gemini_available, LocalTierEnabled, g, o,
                                st.context, st.pick) IN
         /\ thinking_process' = thinking_process \o res.appended
         /\ last_call' = [made |-> TRUE, gemini |-> g, ollama |-> o,
                          before |-> Len(thinking_process), context |-> st.context,
                          up |-> ollama_up,
                          appended |-> res.appended,
                          attempts |-> res.attempts, tier |-> res.tier, text |-> res.text]
    /\ ncalls' = ncalls + 1
    /\ UNCHANGED << role, gemini_available, ollama_available, ollama_up, probe_result >>

\* the local provider goes down or comes up while the agent lives
ProviderFlips ==
    /\ ollama_up' = ~ollama_up
    /\ UNCHANGED << role, gemini_available, ollama_available, probe_result,
                    thinking_process, ncalls, last_call >>

\* =========================================================================
\* parse_simulation_into_turns on transcripts of its own
\* =========================================================================
\* lines a transcript is made of: a marker without colon and a message, a bare
\* marker in mixed case, a continuation line, a marker with colon and a message
\* that holds a second marker, a separator line
ParserLines ==
    { <<"PROSECUTOR", ":", " ", "We", " ", "allege", " ", "theft.">>,
      <<" ", "Defense", " ">>,
      <<"and", " ", "more">>,
      <<"JUDGE:", " ", "The", " ", "defense", " ", "rests.">>,
      <<" ", "-", "-">> }

ParseInit ==
    /\ p_transcript \in SeqsUpTo(ParserLines, MaxLines)
    /\ p_turns = Null

\* turns = parse_simulation_into_turns(transcript)
ParseTranscript ==
    /\ IsNull(p_turns)
    /\ p_turns' = Some(parse_simulation_into_turns(p_transcript))
    /\ UNCHANGED p_transcript

\* the parser is not called on its own
ParseIdle ==
    /\ p_transcript = <<>>
    /\ p_turns = Null

\* =========================================================================
\* run_agent_simulation, call by call
\* =========================================================================
\* titles of the evidence records, in storage order
ItemTitles == <<"ExhibitA", "ExhibitB", "ExhibitC", "ExhibitD", "ExhibitE", "ExhibitF",
                "ExhibitG", "ExhibitH">>

\* one call of an agent method; item is the title of the record passed, "" if none
AgentCall(agent, method, item) == [agent |-> agent, method |-> method, item |-> item]

\* the string the call returns
Reply(call) == <<call.agent, ".", call.method, "(", call.item, ")">>

\* evidence_analysis[:5]
LoopItems_All(ea) == ea

LoopItems(ea) == SubSeq(ea, 1, Min(Len(ea), EvidenceShown))

PathInit ==
    /\ a_evidence \in {[i \in 1..n |-> ItemTitles[i]] : n \in 0..MaxItems}
    /\ a_pc = "open_court"
    /\ a_i = 0
    /\ a_log = <<>>
    /\ a_transcript = <<>>

\* an agent method raised: the except branch of run_agent_simulation re-raises
PathRaises ==
    /\ a_pc' = "raised"
    /\ UNCHANGED << a_evidence, a_i, a_log, a_transcript >>

\* the call is made and returns; the lines are appended to the transcript
PathCall(call, lines, nextpc, nexti) ==
    /\ a_log' = Append(a_log, call)
    /\ a_transcript' = a_transcript \o lines
    /\ a_pc' = nextpc
    /\ a_i' = nexti
    /\ UNCHANGED a_evidence

\* lines 224-230
OpenCourt ==
    /\ a_pc = "open_court"
    /\ \E fails \in BOOLEAN :
         IF fails THEN PathRaises
         ELSE LET call == AgentCall("judge", "open_court", "") IN
              PathCall(call,
                       << Rule, <<"COURT", " ", "SESSION", " ", "BEGINS">>, Rule,
                          <<"JUDGE:", " ">> \o Reply(call), <<>> >>,
                       "prosecutor_opening", 0)

\* lines 233-235
ProsecutorOpening ==
    /\ a_pc = "prosecutor_opening"
    /\ \E fails \in BOOLEAN :
         IF fails THEN PathRaises
         ELSE LET call == AgentCall("prosecutor", "make_opening_statement", "") IN
              PathCall(call, << <<"PROSECUTOR", "'S", " ", "OPENING:">>, Reply(call), <<>> >>,
                       "defense_opening", 0)

\* lines 237-244: the defense opening, then the loop is entered or skipped
DefenseOpening ==
    /\ a_pc = "defense_opening"
    /\ \E fails \in BOOLEAN :
         IF fails THEN PathRaises
         ELSE LET call == AgentCall("defense", "make_opening_statement", "") IN
              PathCall(call,
                       << <<"DEFENSE", "'S", " ", "OPENING:">>, Reply(call), <<>>,
                          <<"EVIDENCE", " ", "PRESENTATION:">> >>,
                       IF LoopItems(a_evidence) # <<>> THEN "present_evidence"
                       ELSE "prosecutor_closing",
                       IF LoopItems(a_evidence) # <<>> THEN 1 ELSE 0)

\* lines 245 and 247
PresentEvidence ==
    /\ a_pc = "present_evidence"
    /\ \E fails \in BOOLEAN :
         IF fails THEN PathRaises
         ELSE LET call == AgentCall("prosecutor", "present_evidence", LoopItems(a_evidence)[a_i]) IN
              PathCall(call, << <<"PROSECUTOR", " ", "(Evidence N):", " ">> \o Reply(call) >>,
                       "cross_examine", a_i)

\* lines 246 and 248, and the next iteration
CrossExamine ==
    /\ a_pc = "cross_examine"
    /\ \E fails \in BOOLEAN :
         IF fails THEN PathRaises
         ELSE LET call == AgentCall("defense", "cross_examine", LoopItems(a_evidence)[a_i]) IN
              PathCall(call, << <<"DEFENSE", " ", "(Cross-exam):", " ">> \o Reply(call), <<>> >>,
                       IF a_i < Len(LoopItems(a_evidence)) THEN "present_evidence"
                       ELSE "prosecutor_closing",
                       IF a_i < Len(LoopItems(a_evidence)) THEN a_i + 1 ELSE a_i)

\* lines 251-253
ProsecutorClosing ==
    /\ a_pc = "prosecutor_closing"
    /\ \E fails \in BOOLEAN :
         IF fails THEN PathRaises
         ELSE LET call == AgentCall("prosecutor", "make_closing_argument", "") IN
              PathCall(call, << <<"CLOSING", " ", "ARGUMENTS:">>,
                                <<"PROSECUTOR", ":", " ">> \o Reply(call) >>,
                       "defense_closing", a_i)

\* lines 254-255
DefenseClosing ==
    /\ a_pc = "defense_closing"
    /\ \E fails \in BOOLEAN :
         IF fails THEN PathRaises
         ELSE LET call == AgentCall("defense", "make_closing_argument", "") IN
              PathCall(call, << <<"DEFENSE", ":", " ">> \o Reply(call), <<>> >>,
                       "final_judgment", a_i)

\* lines 258-264, after which the dictionary is returned
FinalJudgment ==
    /\ a_pc = "final_judgment"
    /\ \E fails \in BOOLEAN :
         IF fails THEN PathRaises
         ELSE LET call == AgentCall("judge", "make_final_judgment", "") IN
              PathCall(call,
                       << <<"COURT", "'S", " ", "DECISION:">>, Reply(call),
                          Rule, <<"COURT", " ", "SESSION", " ", "ENDS">>, Rule >>,
                       "returned", a_i)

\* run_agent_simulation is not under observation
PathIdle ==
    /\ a_evidence = <<>>
    /\ a_pc = "idle"
    /\ a_i = 0
    /\ a_log = <<>>
    /\ a_transcript = <<>>

\* =========================================================================
\* validate_simulation_results on results of its own
\* =========================================================================
\* the labels the three transcript paths give their result (lines 334, 341, 349)
ProducedTypes == {"local_agents", "openai", "static_fallback"}

\* a turn as the parser emits it
FullTurn == MakeTurn(0, "Judge", <<"Order.">>)

\* a turn without one of its keys
TurnWithout(f) == [k \in DOMAIN FullTurn \ {f} |-> FullTurn[k]]

TurnShapes == {FullTurn} \cup {TurnWithout(f) : f \in DOMAIN FullTurn}

\* a dictionary with all eight keys
FullResults ==
    [simulation_id : {1},
     simulation_text : { Null, Some(<< <<>> >>), Some(<< <<"Judge:", " ", "Order.">> >>) },
     turns : SeqsUpTo(TurnShapes, MaxTurns),
     thinking_processes : {NoThinking},
     evidence_analyzed : {0 - 1, 0, EvidenceLimit, EvidenceLimit + 1},
     simulation_type : ProducedTypes \cup {"hybrid", "remote_llm"},
     generated_at : {"utcnow"},
     status : {"completed", "failed", "partial", "running"}]

\* the dictionary without one of its keys
ResultsWithout(r, f) == [k \in DOMAIN r \ {f} |-> r[k]]

ValidateInit ==
    /\ v_results \in FullResults \cup
                     {ResultsWithout(r, f) :
                        r \in {x \in FullResults : validate_simulation_results(x) = ""},
                        f \in {required_fields[k] : k \in 1..Len(required_fields)}}
    /\ v_verdict = Null

\* is_valid, error_message = validate_simulation_results(results)
ValidateResults ==
    /\ IsNull(v_verdict)
    /\ v_verdict' = Some(validate_simulation_results(v_results))
    /\ UNCHANGED v_results

\* the validator is not called on its own
ValidateIdle ==
    /\ v_results = NoResults
    /\ v_verdict = Null

\* =========================================================================
\* BaseAgent.analyze_case and clear_memory
\* =========================================================================
\* {} : a dictionary without keys
EmptyDict == [k \in {} |-> <<>>]

\* dict.update
DictUpdate(old, new) ==
    [k \in DOMAIN old \cup DOMAIN new |-> IF k \in DOMAIN new THEN new[k] ELSE old[k]]

\* str.lower() on the case types in use
Lower(t) == IF t = "Civil" THEN "civil" ELSE t

\* case documents: the type as stored, the keywords its description holds, and
\* whether the description is longer than 500 characters
Cases == [case_type : {"criminal", "Civil", "constitutional", "family"},
          words : {{}, {"theft"}, {"theft", "assault"}, {"contract"}},
          long : BOOLEAN]

_assess_complexity(c) ==
    LET factors == (IF c.long THEN 1 ELSE 0) +
                   (IF c.case_type \in {"constitutional", "corporate"} THEN 1 ELSE 0)
    IN IF factors >= 2 THEN "high" ELSE IF factors = 1 THEN "medium" ELSE "low"

_identify_key_issues(c, case_type) ==
    LET issues ==
          IF case_type = "criminal"
          THEN (IF c.words \cap {"theft", "steal", "robbery"} # {}
                THEN <<"intent to steal", "ownership of property", "value of stolen goods">>
                ELSE <<>>) \o
               (IF c.words \cap {"assault", "battery", "violence"} # {}
                THEN <<"intent to harm", "self-defense", "provocation">> ELSE <<>>) \o
               (IF c.words \cap {"fraud", "deception"} # {}
                THEN <<"intent to defraud", "materiality of misrepresentation">> ELSE <<>>)
          ELSE IF case_type = "civil"
          THEN (IF c.words \cap {"contract", "agreement", "breach"} # {}
                THEN <<"contract formation", "performance", "damages">> ELSE <<>>) \o
               (IF c.words \cap {"negligence", "accident", "injury"} # {}
                THEN <<"duty of care", "breach of duty", "causation", "damages">> ELSE <<>>)
          ELSE <<>>
    IN IF issues # <<>> THEN issues ELSE <<"liability", "damages", "causation">>

_get_applicable_law(case_type) ==
    CASE case_type = "criminal" -> <<"mens rea", "actus reus", "causation">>
      [] case_type = "civil" -> <<"duty", "breach", "causation", "damages">>
      [] case_type = "constitutional" ->
             <<"fundamental rights", "equal protection", "due process">>
      [] OTHER -> <<"general legal principles">>

\* a case theory that looks for the assault keywords before the theft keywords
_develop_case_theory_AssaultFirst(r, c) ==
    IF Lower(c.case_type) = "criminal" /\ c.words \cap {"assault", "violence"} # {}
       /\ r = "prosecutor"
    THEN "caused harm"
    ELSE IF Lower(c.case_type) = "criminal" /\ c.words \cap {"theft", "steal"} # {}
            /\ r = "prosecutor"
    THEN "took property"
    ELSE IF Lower(c.case_type) = "criminal" /\ "theft" \in c.words /\ r = "defense attorney"
    THEN "no intent to steal"
    ELSE IF Lower(c.case_type) = "criminal" /\ "assault" \in c.words /\ r = "defense attorney"
    THEN "self-defense"
    ELSE IF Lower(c.case_type) = "criminal" /\ "fraud" \in c.words
    THEN IF r = "prosecutor" THEN "false representations" ELSE "good faith"
    ELSE IF r = "prosecutor" THEN "liable for the alleged wrongdoing"
         ELSE "evidence does not support the allegations"

\* ProsecutorAgent._develop_case_theory / DefenseAgent._develop_defense_theory
_develop_case_theory(r, c) ==
    IF Lower(c.case_type) = "criminal" /\ c.words \cap {"theft", "steal"} # {} /\ r = "prosecutor"
    THEN "took property"
    ELSE IF Lower(c.case_type) = "criminal" /\ "theft" \in c.words /\ r = "defense attorney"
    THEN "no intent to steal"
    ELSE IF Lower(c.case_type) = "criminal" /\ c.words \cap {"assault", "violence"} # {}
            /\ r = "prosecutor"
    THEN "caused harm"
    ELSE IF Lower(c.case_type) = "criminal" /\ "assault" \in c.words /\ r = "defense attorney"
    THEN "self-defense"
    ELSE IF Lower(c.case_type) = "criminal" /\ "fraud" \in c.words
    THEN IF r = "prosecutor" THEN "false representations" ELSE "good faith"
    ELSE IF r = "prosecutor" THEN "liable for the alleged wrongdoing"
         ELSE "evidence does not support the allegations"

\* the list _develop_strategy_notes returns, per role
_develop_strategy_notes(r, case_type) ==
    IF r = "judge" THEN <<"fair proceedings", "apply law impartially">>
    ELSE IF case_type = "criminal"
    THEN IF r = "prosecutor" THEN <<"establish elements", "logical sequence">>
         ELSE <<"challenge burden of proof", "create reasonable doubt">>
    ELSE IF case_type = "civil"
    THEN IF r = "prosecutor" THEN <<"prove liability">> ELSE <<"challenge causation">>
    ELSE <<>>

\* the attribute _develop_strategy_notes assigns, per role
StrategyOf(r, c, case_type) ==
    IF r = "judge"
    THEN [case_management_notes |-> <<case_type, "parties", "due process">>]
    ELSE [main_theory |-> _develop_case_theory(r, c),
          key_arguments |-> _develop_strategy_notes(r, case_type)]

\* the dictionary analyze_case builds
Analysis(r, c) ==
    [case_type |-> Lower(c.case_type),
     complexity |-> _assess_complexity(c),
     key_issues |-> _identify_key_issues(c, Lower(c.case_type)),
     applicable_law |-> _get_applicable_law(Lower(c.case_type)),
     strategy_notes |-> _develop_strategy_notes(r, Lower(c.case_type))]

NoOp == [op |-> "none", case |-> <<>>, returned |-> EmptyDict, after_clear |-> FALSE]

\* a freshly constructed agent
MemoryInit ==
    /\ case_memory = EmptyDict
    /\ agent_evidence = EmptyDict
    /\ role_strategy = EmptyDict
    /\ last_op = NoOp
    /\ before_clear = EmptyDict
    /\ nops = 0

\* analyze_case(case_data)
AnalyzeCase ==
    /\ nops < MaxOps
    /\ \E c \in Cases :
         /\ thinking_process' = Append(thinking_process, Thought(role, "analysis"))
         /\ role_strategy' = StrategyOf(role, c, Lower(c.case_type))
         /\ case_memory' = DictUpdate(case_memory, Analysis(role, c))
         /\ last_op' = [op |-> "analyze", case |-> <<c>>, returned |-> Analysis(role, c),
                        after_clear |-> (last_op.op = "clear")]
    /\ nops' = nops + 1
    /\ UNCHANGED << role, gemini_available, ollama_available, ollama_up, probe_result,
                    ncalls, last_call,
                    agent_evidence, before_clear >>

\* a clear_memory() that resets the thought log only
ClearMemory_KeepsCase ==
    /\ nops < MaxOps
    /\ thinking_process' = <<>>
    /\ case_memory' = case_memory
    /\ agent_evidence' = EmptyDict
    /\ before_clear' = case_memory
    /\ last_op' = [op |-> "clear", case |-> <<>>, returned |-> EmptyDict, after_clear |-> FALSE]
    /\ nops' = nops + 1
    /\ UNCHANGED << role, gemini_available, ollama_available, ollama_up, probe_result,
                    ncalls, last_call,
                    role_strategy >>

\* clear_memory()
ClearMemory ==
    /\ nops < MaxOps
    /\ thinking_process' = <<>>
    /\ case_memory' = EmptyDict
    /\ agent_evidence' = EmptyDict
    /\ before_clear' = case_memory
    /\ last_op' = [op |-> "clear", case |-> <<>>, returned |-> EmptyDict, after_clear |-> FALSE]
    /\ nops' = nops + 1
    /\ UNCHANGED << role, gemini_available, ollama_available, ollama_up, probe_result,
                    ncalls, last_call,
                    role_strategy >>

\* =========================================================================
\* the role classes (prosecutor.py, defense.py, judge.py)
\* =========================================================================
\* dict.get(key, default)
DictGet(d, k, default) == IF k \in DOMAIN d THEN d[k] ELSE default

\* the cases the role actions are called with
Docket ==
    { [case_type |-> "criminal", words |-> {"theft"}, long |-> FALSE],
      [case_type |-> "criminal", words |-> {"theft", "assault"}, long |-> FALSE],
      [case_type |-> "Civil", words |-> {"contract"}, long |-> FALSE],
      [case_type |-> "family", words |-> {}, long |-> FALSE] }

\* evidence lists handed to make_opening_statement
EvidenceLists == { <<>>, <<[title |-> "Camera footage", type |-> "video"]>> }

\* evidence records handed to present_evidence, summaries handed to cross_examine
EvidenceRecords == { [title |-> "Camera footage", type |-> "video"],
                     [title |-> "Receipt", type |-> "document"] }

\* ProsecutorAgent._assess_evidence_strength
_assess_evidence_strength(ev) ==
    CASE ev.type \in {"video", "forensic", "fingerprint"} -> "strong"
      [] ev.type = "dna" -> "very strong"
      [] ev.type = "circumstantial" -> "weak to moderate"
      [] OTHER -> "moderate"

\* JudgeAgent._get_legal_standard
_get_legal_standard(case_type) ==
    CASE Lower(case_type) = "criminal" -> "beyond a reasonable doubt"
      [] Lower(case_type) = "civil" -> "preponderance of the evidence"
      [] Lower(case_type) = "constitutional" -> "strict scrutiny"
      [] Lower(case_type) = "administrative" -> "substantial evidence"
      [] OTHER -> "applicable legal standard"

\* the context strings the role actions pass to respond
OpeningContext(r) ==
    IF r = "judge" THEN <<"opening", " ", "court", " ", "session">>
    ELSE IF r = "prosecutor" THEN <<"prosecution", " ", "opening", " ", "statement">>
    ELSE <<"defense", " ", "opening", " ", "statement">>

EvidenceContext(r) ==
    IF r = "judge" THEN <<"evidence", " ", "ruling">>
    ELSE IF r = "prosecutor" THEN <<"evidence", " ", "presentation">>
    ELSE <<"cross", "-", "examination", " ", "of", " ", "prosecution", " ", "evidence">>

ClosingContext(r) ==
    IF r = "judge" THEN <<"final", " ", "judgment">>
    ELSE IF r = "prosecutor" THEN <<"prosecution", " ", "closing", " ", "argument">>
    ELSE <<"defense", " ", "closing", " ", "argument">>

\* what self.respond(prompt, context) can append and return in the agent's state
RespondResults(ctx) ==
    UNION { { RespondCall(role, gemini_available, LocalTierEnabled, g, o, ctx, pick) :
                o \in OllamaChoices(g), pick \in 1..CannedCount } : g \in GeminiChoices }

NoPrompt == [action |-> "none", case_type |-> "", theory |-> "", detail |-> {},
             law |-> <<>>, standard |-> "", rulings |-> 0, pieces |-> 0]

\* the role attributes after __init__
RoleInit ==
    /\ evidence_strength_map = EmptyDict
    /\ reasonable_doubt_points = <<>>
    /\ judicial_decisions = <<>>
    /\ evidence_rulings = EmptyDict
    /\ last_prompt = NoPrompt

\* a thought log that keeps the newest entries first
think_Newest_First(log, entries) == entries \o log

\* self.thinking_process.append(...), for the entries of one role action in order
think(log, entries) == log \o entries

\* bookkeeping shared by the role actions: the call is counted and noted, with
\* the case the agent was last given
Acted(name, given) ==
    /\ nops < MaxOps
    /\ nops' = nops + 1
    /\ last_op' = [op |-> name, case |-> given, returned |-> EmptyDict,
                   after_clear |-> (last_op.op = "clear")]
    /\ UNCHANGED << role, gemini_available, ollama_available, ollama_up, probe_result,
                    ncalls, last_call, agent_evidence, before_clear >>

\* ProsecutorAgent.make_opening_statement / DefenseAgent.make_opening_statement
make_opening_statement ==
    /\ role \in {"prosecutor", "defense attorney"}
    /\ \E c \in Docket, evidence \in EvidenceLists,
          res \in RespondResults(OpeningContext(role)) :
         LET strategy == StrategyOf(role, c, Lower(c.case_type)) IN
         /\ Acted("make_opening_statement", <<c>>)
         /\ case_memory' = DictUpdate(case_memory, Analysis(role, c))
         /\ role_strategy' = strategy
         /\ thinking_process' = think(thinking_process,
                                     <<Thought(role, "analysis"), Thought(role, "strategy")>>
                                     \o res.appended)
         /\ last_prompt' =
              [NoPrompt EXCEPT !.action = "opening", !.case_type = c.case_type,
                 !.pieces = Len(evidence),
                 !.theory = DictGet(strategy, "main_theory",
                               IF role = "prosecutor"
                               THEN "Defendant is responsible for the alleged wrongdoing"
                               ELSE "The evidence does not support guilt")]
    /\ UNCHANGED << evidence_strength_map, reasonable_doubt_points, judicial_decisions,
                    evidence_rulings >>

\* an open_court that does not analyse the case
open_court_NoAnalysis ==
    /\ role = "judge"
    /\ \E c \in Docket, res \in RespondResults(OpeningContext(role)) :
         /\ Acted("open_court", <<c>>)
         /\ case_memory' = case_memory
         /\ role_strategy' = StrategyOf(role, c, Lower(c.case_type))
         /\ thinking_process' = think(thinking_process,
                                     <<Thought(role, "analysis"), Thought(role, "court_management")>>
                                     \o res.appended)
         /\ last_prompt' = [NoPrompt EXCEPT !.action = "open_court", !.case_type = c.case_type]
    /\ UNCHANGED << evidence_strength_map, reasonable_doubt_points, judicial_decisions,
                    evidence_rulings >>

\* JudgeAgent.open_court
open_court ==
    /\ role = "judge"
    /\ \E c \in Docket, res \in RespondResults(OpeningContext(role)) :
         /\ Acted("open_court", <<c>>)
         /\ case_memory' = DictUpdate(case_memory, Analysis(role, c))
         /\ role_strategy' = StrategyOf(role, c, Lower(c.case_type))
         /\ thinking_process' = think(thinking_process,
                                     <<Thought(role, "analysis"), Thought(role, "court_management")>>
                                     \o res.appended)
         /\ last_prompt' = [NoPrompt EXCEPT !.action = "open_court", !.case_type = c.case_type]
    /\ UNCHANGED << evidence_strength_map, reasonable_doubt_points, judicial_decisions,
                    evidence_rulings >>

\* ProsecutorAgent.present_evidence
present_evidence ==
    /\ role = "prosecutor"
    /\ Acted("present_evidence", last_op.case)
    /\ \E ev \in EvidenceRecords, res \in RespondResults(EvidenceContext(role)) :
         /\ thinking_process' = think(thinking_process,
                                     <<Thought(role, "evidence")>>
                                     \o res.appended)
         /\ evidence_strength_map' =
              DictUpdate(evidence_strength_map,
                         [t \in {ev.title} |-> _assess_evidence_strength(ev)])
         /\ last_prompt' = [NoPrompt EXCEPT !.action = "present_evidence",
                                            !.detail = {ev.title}]
    /\ UNCHANGED << case_memory, role_strategy, reasonable_doubt_points, judicial_decisions,
                    evidence_rulings >>

\* DefenseAgent.cross_examine
cross_examine ==
    /\ role = "defense attorney"
    /\ Acted("cross_examine", last_op.case)
    /\ \E ev \in EvidenceRecords, res \in RespondResults(EvidenceContext(role)) :
         /\ thinking_process' = think(thinking_process,
                                     <<Thought(role, "cross_examination")>>
                                     \o res.appended)
         /\ reasonable_doubt_points' = Append(reasonable_doubt_points, ev.title)
         /\ last_prompt' = [NoPrompt EXCEPT !.action = "cross_examine", !.detail = {ev.title}]
    /\ UNCHANGED << case_memory, role_strategy, evidence_strength_map, judicial_decisions,
                    evidence_rulings >>

\* JudgeAgent.rule_on_evidence
rule_on_evidence ==
    /\ role = "judge"
    /\ Acted("rule_on_evidence", last_op.case)
    /\ \E ev \in EvidenceRecords, res \in RespondResults(EvidenceContext(role)) :
         /\ thinking_process' = think(thinking_process,
                                     <<Thought(role, "evidence_ruling")>>
                                     \o res.appended)
         /\ evidence_rulings' =
              DictUpdate(evidence_rulings, [t \in {ev.title} |-> res.text])
         /\ last_prompt' = [NoPrompt EXCEPT !.action = "rule_on_evidence",
                                            !.detail = {ev.title}]
    /\ UNCHANGED << case_memory, role_strategy, evidence_strength_map,
                    reasonable_doubt_points, judicial_decisions >>

\* self.reasonable_doubt_points[-3:]
LastThree(seq) == SubSeq(seq, IF Len(seq) > 3 THEN Len(seq) - 2 ELSE 1, Len(seq))

\* the prompt of ProsecutorAgent.make_closing_argument
ProsecutorClosingPrompt ==
    [NoPrompt EXCEPT
       !.action = "closing",
       !.theory = DictGet(role_strategy, "main_theory", "Defendant is guilty as charged"),
       !.detail = {t \in DOMAIN evidence_strength_map :
                     evidence_strength_map[t] \in {"strong", "very strong"}},
       !.law = DictGet(case_memory, "applicable_law", <<"burden of proof">>)]

\* the prompt of DefenseAgent.make_closing_argument
DefenseClosingPrompt ==
    [NoPrompt EXCEPT
       !.action = "closing",
       !.theory = DictGet(role_strategy, "main_theory", "Client is innocent"),
       !.detail = {LastThree(reasonable_doubt_points)[i] :
                     i \in 1..Len(LastThree(reasonable_doubt_points))},
       !.law = DictGet(case_memory, "applicable_law",
                       <<"reasonable doubt", "presumption of innocence">>)]

\* ProsecutorAgent.make_closing_argument / DefenseAgent.make_closing_argument
make_closing_argument ==
    /\ role \in {"prosecutor", "defense attorney"}
    /\ Acted("make_closing_argument", last_op.case)
    /\ \E res \in RespondResults(ClosingContext(role)) :
         thinking_process' = think(thinking_process,
                                     <<Thought(role, "closing")>>
                                     \o res.appended)
    /\ last_prompt' = IF role = "prosecutor" THEN ProsecutorClosingPrompt
                      ELSE DefenseClosingPrompt
    /\ UNCHANGED << case_memory, role_strategy, evidence_strength_map,
                    reasonable_doubt_points, judicial_decisions, evidence_rulings >>

\* the prompt of JudgeAgent.make_final_judgment
JudgmentPrompt ==
    [NoPrompt EXCEPT
       !.action = "final_judgment",
       !.case_type = DictGet(case_memory, "case_type", "unknown"),
       !.standard = _get_legal_standard(DictGet(case_memory, "case_type", "unknown")),
       !.law = DictGet(case_memory, "applicable_law", <<"general legal principles">>),
       !.rulings = Cardinality(DOMAIN evidence_rulings)]

\* JudgeAgent.make_final_judgment
make_final_judgment ==
    /\ role = "judge"
    /\ Acted("make_final_judgment", last_op.case)
    /\ \E res \in RespondResults(ClosingContext(role)) :
         /\ thinking_process' = think(thinking_process,
                                     <<Thought(role, "final_judgment")>>
                                     \o res.appended)
         /\ judicial_decisions' =
              Append(judicial_decisions,
                     [type |-> "final_judgment", judgment |-> res.text,
                      legal_standard |-> JudgmentPrompt.standard,
                      evidence_considered |-> Cardinality(DOMAIN evidence_rulings)])
    /\ last_prompt' = JudgmentPrompt
    /\ UNCHANGED << case_memory, role_strategy, evidence_strength_map,
                    reasonable_doubt_points, evidence_rulings >>

\* =========================================================================
\* specifications
\* =========================================================================
\* no agent is under observation in the orchestrator's specification
AgentIdle ==
    /\ role = "judge"
    /\ gemini_available = FALSE
    /\ ollama_available = FALSE
    /\ ollama_up = FALSE
    /\ probe_result = FALSE
    /\ thinking_process = <<>>
    /\ ncalls = 0
    /\ last_call = NoCall

\* no request is served in the agent's specification
OrchIdle ==
    /\ db_case = Null
    /\ db_evidence = <<>>
    /\ run = 0
    /\ pc = "idle"
    /\ case = Null
    /\ evidence_analysis = EvList(<<>>)
    /\ sim_out = NoSimOut
    /\ simulation_type = ""
    /\ turns = <<>>
    /\ simulation_results = NoResults
    /\ validated = Null
    /\ retry_count = 0
    /\ response = Null
    /\ calls = <<>>
    /\ outcome = NoOutcome

Init == OrchInit /\ AgentIdle /\ ParseIdle /\ PathIdle /\ ValidateIdle /\ MemoryInit /\ RoleInit

Next ==
    \/ (StartRequest /\ UNCHANGED << agentVars, parseVars, pathVars, validateVars, memVars, roleVars >>)
    \/ (EvidenceAnalysis /\ UNCHANGED << agentVars, parseVars, pathVars, validateVars, memVars, roleVars >>)
    \/ (AgentSimulation /\ UNCHANGED << agentVars, parseVars, pathVars, validateVars, memVars, roleVars >>)
    \/ (RemoteFallback /\ UNCHANGED << agentVars, parseVars, pathVars, validateVars, memVars, roleVars >>)
    \/ (StaticFallback /\ UNCHANGED << agentVars, parseVars, pathVars, validateVars, memVars, roleVars >>)
    \/ (TurnParsing /\ UNCHANGED << agentVars, parseVars, pathVars, validateVars, memVars, roleVars >>)
    \/ (ResultValidation /\ UNCHANGED << agentVars, parseVars, pathVars, validateVars, memVars, roleVars >>)
    \/ (PopulateTurns /\ UNCHANGED << agentVars, parseVars, pathVars, validateVars, memVars, roleVars >>)
    \/ (PersistUpdate /\ UNCHANGED << agentVars, parseVars, pathVars, validateVars, memVars, roleVars >>)
    \/ (PersistReadback /\ UNCHANGED << agentVars, parseVars, pathVars, validateVars, memVars, roleVars >>)
    \/ (DeleteCase /\ UNCHANGED << agentVars, parseVars, pathVars, validateVars, memVars, roleVars >>)

Spec == Init /\ [][Next]_vars

RespondInit == AgentInit /\ OrchIdle /\ ParseIdle /\ PathIdle /\ ValidateIdle /\ MemoryInit /\ RoleInit

RespondNext ==
    \/ (Respond /\ UNCHANGED << orchVars, parseVars, pathVars, validateVars, memVars, roleVars >>)
    \/ (ProviderFlips /\ UNCHANGED << orchVars, parseVars, pathVars, validateVars, memVars, roleVars >>)

SpecRespond == RespondInit /\ [][RespondNext]_vars

ParseSpecInit == ParseInit /\ OrchIdle /\ AgentIdle /\ PathIdle /\ ValidateIdle /\ MemoryInit /\ RoleInit

ParseNext == ParseTranscript /\ UNCHANGED << orchVars, agentVars, pathVars, validateVars, memVars, roleVars >>

SpecParse == ParseSpecInit /\ [][ParseNext]_vars

PathSpecInit == PathInit /\ OrchIdle /\ AgentIdle /\ ParseIdle /\ ValidateIdle /\ MemoryInit /\ RoleInit

PathNext ==
    \/ (OpenCourt /\ UNCHANGED << orchVars, agentVars, parseVars, validateVars, memVars, roleVars >>)
    \/ (ProsecutorOpening /\ UNCHANGED << orchVars, agentVars, parseVars, validateVars, memVars, roleVars >>)
    \/ (DefenseOpening /\ UNCHANGED << orchVars, agentVars, parseVars, validateVars, memVars, roleVars >>)
    \/ (PresentEvidence /\ UNCHANGED << orchVars, agentVars, parseVars, validateVars, memVars, roleVars >>)
    \/ (CrossExamine /\ UNCHANGED << orchVars, agentVars, parseVars, validateVars, memVars, roleVars >>)
    \/ (ProsecutorClosing /\ UNCHANGED << orchVars, agentVars, parseVars, validateVars, memVars, roleVars >>)
    \/ (DefenseClosing /\ UNCHANGED << orchVars, agentVars, parseVars, validateVars, memVars, roleVars >>)
    \/ (FinalJudgment /\ UNCHANGED << orchVars, agentVars, parseVars, validateVars, memVars, roleVars >>)

SpecPath == PathSpecInit /\ [][PathNext]_vars

ValidateSpecInit == ValidateInit /\ OrchIdle /\ AgentIdle /\ ParseIdle /\ PathIdle /\ MemoryInit /\ RoleInit

ValidateNext == ValidateResults /\ UNCHANGED << orchVars, agentVars, parseVars, pathVars, memVars, roleVars >>

SpecValidate == ValidateSpecInit /\ [][ValidateNext]_vars

MemorySpecInit ==
    /\ AgentInit /\ MemoryInit /\ RoleInit
    /\ OrchIdle /\ ParseIdle /\ PathIdle /\ ValidateIdle

MemoryNext ==
    \/ (AnalyzeCase /\ UNCHANGED << orchVars, parseVars, pathVars, validateVars, roleVars >>)
    \/ (ClearMemory /\ UNCHANGED << orchVars, parseVars, pathVars, validateVars, roleVars >>)

SpecMemory == MemorySpecInit /\ [][MemoryNext]_vars

\* an agent of a role class and the calls made on it
\* an agent constructed while the local provider is not running
AgentInitLocalDown ==
    /\ role \in Roles
    /\ gemini_available \in BOOLEAN
    /\ ollama_up = FALSE
    /\ probe_result = ollama_up
    /\ ollama_available = probe_result
    /\ thinking_process = <<>>
    /\ ncalls = 0
    /\ last_call = NoCall

RoleSpecInit ==
    /\ AgentInitLocalDown /\ MemoryInit /\ RoleInit
    /\ OrchIdle /\ ParseIdle /\ PathIdle /\ ValidateIdle

RoleNext ==
    \/ (make_opening_statement /\ UNCHANGED << orchVars, parseVars, pathVars, validateVars >>)
    \/ (open_court /\ UNCHANGED << orchVars, parseVars, pathVars, validateVars >>)
    \/ (present_evidence /\ UNCHANGED << orchVars, parseVars, pathVars, validateVars >>)
    \/ (cross_examine /\ UNCHANGED << orchVars, parseVars, pathVars, validateVars >>)
    \/ (rule_on_evidence /\ UNCHANGED << orchVars, parseVars, pathVars, validateVars >>)
    \/ (make_closing_argument /\ UNCHANGED << orchVars, parseVars, pathVars, validateVars >>)
    \/ (make_final_judgment /\ UNCHANGED << orchVars, parseVars, pathVars, validateVars >>)
    \/ (ClearMemory /\ UNCHANGED << orchVars, parseVars, pathVars, validateVars, roleVars >>)

SpecRole == RoleSpecInit /\ [][RoleNext]_vars


\* =========================================================================
\* properties
\* =========================================================================
\* the request invoked the named collaborator or stage
Called(name) == \E i \in 1..Len(calls) : calls[i] = name

\* number of invocations of the named collaborator in the request
CallCount(name) == Cardinality({i \in 1..Len(calls) : calls[i] = name})

\* the request has ended with the given kind of response
EndedWith(msg) == pc = "done" /\ ~IsNull(response) /\ Get(response).error = msg

EndedInSuccess == pc = "done" /\ ~IsNull(response) /\ Get(response).code = 200

EndedInError == pc = "done" /\ ~IsNull(response) /\ Get(response).code # 200

\* the case store holds simulation results written by the current request
StoreHoldsThisRun ==
    /\ ~IsNull(db_case)
    /\ ~IsNull(Get(db_case).simulation_results)
    /\ Get(Get(db_case).simulation_results).simulation_id = run

\* C1: once the agent simulation has raised, the static fallback (when it is
\* reached) returns a transcript and does not raise, the result is labelled
\* static_fallback, and the request does not end in the handler's generic
\* "Simulation failed" error.
C1_AgentFailureAbsorbed ==
    (outcome.agent = "raised" /\ outcome.static # "not_run") =>
        /\ outcome.static = "returned"
        /\ ~IsNull(sim_out.transcript)
        /\ simulation_type = "static_fallback"
        /\ ~EndedWith("Simulation failed")

\* C2: when the case has no evidence items (flag unset, or flag set and the
\* evidence store answers with no items), the evidence analysis handed to the
\* later stages is the empty list, and the request does not end in the generic
\* "Simulation failed" error.
C2_NoEvidenceIsEmptyList ==
    (Called("run_agent_simulation") /\ db_evidence = <<>>) =>
        /\ evidence_analysis = EvList(<<>>)
        /\ ~EndedWith("Simulation failed")


\* ---- the provider chain (SpecRespond)
Rank(t) == CASE t = "gemini" -> 1 [] t = "ollama" -> 2 [] t = "static" -> 3

Attempted(t) == \E i \in 1..Len(last_call.attempts) : last_call.attempts[i] = t

\* a provider answer that does not count: nothing, or trimmed text of at most 10 characters
BelowThreshold(reply) == IsNull(reply) \/ CharLen(Strip(Get(reply))) <= 10

\* the provider was called and did not succeed
DidNotSucceed(p) == p.asked /\ (p.raises \/ BelowThreshold(p.reply))

Logged(category) == \E i \in 1..Len(last_call.appended) : last_call.appended[i].category = category

\* C3: in every respond call the tiers are attempted in the order remote, local,
\* static; the remote tier is attempted first whenever it is available; the local
\* tier is attempted only if the remote tier was unavailable, raised or answered
\* below the threshold; the static tier only if the local tier likewise did not
\* succeed; nothing is attempted after the tier that satisfied the call.
C3_TiersInOrder ==
    last_call.made =>
        LET a == last_call.attempts IN
        /\ a # <<>>
        /\ \A i \in 1..Len(a) : \A j \in 1..Len(a) : i < j => Rank(a[i]) < Rank(a[j])
        /\ gemini_available => a[1] = "gemini"
        /\ Attempted("gemini") => last_call.gemini.asked
        /\ Attempted("ollama") =>
              /\ last_call.ollama.asked
              /\ ~gemini_available \/ DidNotSucceed(last_call.gemini)
        /\ Attempted("static") =>
              /\ ~gemini_available \/ DidNotSucceed(last_call.gemini)
              /\ ~ollama_available \/ DidNotSucceed(last_call.ollama)
        /\ last_call.tier = a[Len(a)]
        /\ last_call.tier = "gemini" => ~DidNotSucceed(last_call.gemini)
        /\ last_call.tier = "ollama" => ~DidNotSucceed(last_call.ollama)

\* C3 witness: the remote tier answered with exactly 10 characters after trimming,
\* so the local tier was attempted next and satisfied the call
C3_Witness ==
    /\ last_call.made
    /\ last_call.attempts = <<"gemini", "ollama">>
    /\ ~last_call.gemini.raises
    /\ ~IsNull(last_call.gemini.reply)
    /\ CharLen(Strip(Get(last_call.gemini.reply))) = 10
    /\ last_call.tier = "ollama"

\* C4: whatever the remote and local providers do when called (raise, return
\* nothing, return short text, return valid text), respond returns a text from
\* one of the three tiers, and a provider exception is recorded in the thought
\* log as gemini_error / ollama_error exactly when that provider raised.
C4_RespondAlwaysReturns ==
    last_call.made =>
        /\ last_call.tier \in {"gemini", "ollama", "static"}
        /\ last_call.text \in Seq(STRING)
        /\ Logged("gemini_error") <=> (last_call.gemini.asked /\ last_call.gemini.raises)
        /\ Logged("ollama_error") <=> (last_call.ollama.asked /\ last_call.ollama.raises)
        /\ (last_call.gemini.raises /\ last_call.ollama.raises) => last_call.tier = "static"

\* C4 witness: both providers raised in one call and the static text was returned
C4_Witness ==
    /\ last_call.made
    /\ last_call.gemini.asked /\ last_call.gemini.raises
    /\ last_call.ollama.asked /\ last_call.ollama.raises
    /\ last_call.tier = "static"
    /\ last_call.text # <<>>

TierCategories == {"gemini_success", "ollama_success", "static_fallback"}

TierCategory(t) == CASE t = "gemini" -> "gemini_success"
                     [] t = "ollama" -> "ollama_success"
                     [] t = "static" -> "static_fallback"

\* C10: every respond call appends, at the end of the thought log and after
\* the entries already there, exactly one entry whose category is gemini_success,
\* ollama_success or static_fallback; it is the last entry of the call and names
\* the tier whose text is returned; with both providers unavailable the call
\* appends the entries response, static_fallback and nothing else.
C10_OneTierEntry ==
    last_call.made =>
        LET ap == last_call.appended IN
        /\ Len(thinking_process) = last_call.before + Len(ap)
        /\ SubSeq(thinking_process, last_call.before + 1, Len(thinking_process)) = ap
        /\ Cardinality({i \in 1..Len(ap) : ap[i].category \in TierCategories}) = 1
        /\ ap[Len(ap)].category = TierCategory(last_call.tier)
        /\ \A i \in 1..Len(ap) : ap[i].role = role
        /\ last_call.tier = "gemini" => ~DidNotSucceed(last_call.gemini)
        /\ last_call.tier = "ollama" => ~DidNotSucceed(last_call.ollama)
        /\ (~gemini_available /\ ~ollama_available) =>
              /\ last_call.tier = "static"
              /\ [i \in 1..Len(ap) |-> ap[i].category] = <<"response", "static_fallback">>

\* C10 witness: a second call on an agent with no provider, after a first one
C10_Witness ==
    /\ last_call.made
    /\ ~gemini_available /\ ~ollama_available
    /\ last_call.before > 0
    /\ last_call.tier = "static"

\* C11: with both providers unavailable, two successive respond calls of the same
\* agent (same role) with the same context return the same text.
C11_StaticDeterministic ==
    [][(/\ ~gemini_available /\ ~ollama_available
        /\ last_call.made /\ last_call'.made
        /\ last_call'.context = last_call.context)
          => last_call'.text = last_call.text]_vars

C6_InvalidResultNotPersisted ==
    (Called("validate_simulation_results") /\ IsNull(validated)) =>
        /\ EndedWith("Invalid simulation results")
        /\ Get(response).code = 400
        /\ Get(response).detail # ""
        /\ ~Called("update_case")
        /\ ~StoreHoldsThisRun

\* C6 witness: validation rejected the blank transcript of the remote fallback
C6_Witness ==
    /\ EndedWith("Invalid simulation results")
    /\ Get(response).detail = "Simulation text cannot be empty"
    /\ calls[Len(calls)] = "validate_simulation_results"

\* C7: a request that ends with an error response has left no simulation results
\* of its own in the case store, and one that ends in success has left the
\* complete result there (as long as the case document exists).
C7_AllOrNothing ==
    /\ EndedInError => ~StoreHoldsThisRun
    /\ (EndedInSuccess /\ ~IsNull(db_case)) =>
          Get(db_case).simulation_results = Some(simulation_results)

\* C8: at most 3 update_case calls per request; the request turns into a success
\* only in a step that reads the case back and finds simulation_results with the
\* four fields, directly after an update_case that reported success, with fewer
\* than 3 failed attempts; a request whose 3 attempts failed ends with the
\* persistence error, and every request that reached the save loop ends in one of
\* the two.
C8_BoundedVerifiedSave ==
    /\ [](/\ CallCount("update_case") <= max_retries
          /\ retry_count <= max_retries
          /\ EndedInSuccess =>
                /\ retry_count < max_retries
                /\ Len(calls) >= 2
                /\ calls[Len(calls)] = "get_case_by_id"
                /\ calls[Len(calls) - 1] = "update_case"
          /\ (pc = "done" /\ Called("update_case")) =>
                IF retry_count = max_retries
                THEN response = SaveFailed
                ELSE EndedInSuccess)
    /\ [][(EndedInSuccess' /\ ~EndedInSuccess) =>
             /\ pc = "persist_readback"
             /\ ReadBackVerified(db_case)
             /\ retry_count' = retry_count]_vars

\* C8 witness: the third attempt was the one that succeeded
C8_Witness ==
    /\ EndedInSuccess
    /\ retry_count = 2
    /\ CallCount("update_case") = 3

\* C9: once validation has accepted a result, the result that is reported on and
\* saved equals the validated one, turns included.
C9_ValidatedResultUnchanged ==
    ~IsNull(validated) =>
        /\ simulation_results = Get(validated)
        /\ StoreHoldsThisRun => Get(db_case).simulation_results = validated

\* ---- the parser on its own (SpecParse)
\* the token spells a role marker
IsMarkerTok(t) == \E k \in 1..Len(role_markers) : role_markers[k].marker = Upper(t)

\* the role the marker stands for
RoleOfMarkerTok(t) ==
    role_markers[CHOOSE k \in 1..Len(role_markers) : role_markers[k].marker = Upper(t)].role

\* the marker is spelled with its colon
EndsWithColon(t) == Upper(t) \in {"JUDGE:", "COURT:"}

\* the text after the colon that follows the marker at the start of the line
TextAfterColon(l) == IF EndsWithColon(l[1]) THEN Strip(Tail(l)) ELSE Strip(SubSeq(l, 3, Len(l)))

\* the line is a role marker, a colon and a message
MarkerColonLine(l) ==
    /\ l # <<>>
    /\ IsMarkerTok(l[1])
    /\ EndsWithColon(l[1]) \/ (Len(l) >= 2 /\ l[2] = ":")
    /\ TextAfterColon(l) # <<>>

\* C12: for a transcript whose lines are all of the form marker, colon, message,
\* the parser returns one turn per line, in order, with the role of the line's
\* marker and the text after the colon as message.
C12_OneTurnPerMarkerLine ==
    (/\ ~IsNull(p_turns)
     /\ \A i \in 1..Len(p_transcript) : MarkerColonLine(p_transcript[i]))
      => /\ Len(Get(p_turns)) = Len(p_transcript)
         /\ \A i \in 1..Len(p_transcript) :
               /\ Get(p_turns)[i].role = RoleOfMarkerTok(p_transcript[i][1])
               /\ Get(p_turns)[i].message = TextAfterColon(p_transcript[i])

\* ---- the agent path (SpecPath)
RECURSIVE EvidencePairs(_)
\* for each item, the prosecutor's presentation followed by the defense's
\* cross-examination of the same item
EvidencePairs(items) ==
    IF items = <<>> THEN <<>>
    ELSE << AgentCall("prosecutor", "present_evidence", Head(items)),
            AgentCall("defense", "cross_examine", Head(items)) >> \o EvidencePairs(Tail(items))

\* the protocol for a run over the given evidence records
ExpectedCalls(ea) ==
    << AgentCall("judge", "open_court", ""),
       AgentCall("prosecutor", "make_opening_statement", ""),
       AgentCall("defense", "make_opening_statement", "") >>
    \o EvidencePairs(SubSeq(ea, 1, IF Len(ea) < 5 THEN Len(ea) ELSE 5)) \o
    << AgentCall("prosecutor", "make_closing_argument", ""),
       AgentCall("defense", "make_closing_argument", ""),
       AgentCall("judge", "make_final_judgment", "") >>

IsPrefix(a, b) == Len(a) <= Len(b) /\ SubSeq(b, 1, Len(a)) = a

EndsWith(l, r) == Len(l) >= Len(r) /\ SubSeq(l, Len(l) - Len(r) + 1, Len(l)) = r

\* the transcript lines that carry a string returned by an agent call
ReplyLines ==
    SelectSeq(a_transcript, LAMBDA l : \E k \in 1..Len(a_log) : EndsWith(l, Reply(a_log[k])))

\* C13: the agent calls of the agent path are made in protocol order (judge opens,
\* prosecutor opening, defense opening, per item of the first five a presentation
\* followed by the cross-examination of the same item, prosecutor closing, defense
\* closing, final judgment), a run that returns has made exactly these calls, and
\* the returned strings stand in the transcript in the order of the calls.
C13_ProtocolOrder ==
    /\ IsPrefix(a_log, ExpectedCalls(a_evidence))
    /\ a_pc = "returned" => a_log = ExpectedCalls(a_evidence)
    /\ Len(ReplyLines) = Len(a_log)
    /\ \A k \in 1..Len(a_log) : EndsWith(ReplyLines[k], Reply(a_log[k]))

\* C13 witness: a run over six evidence records returned after sixteen calls, none
\* of them on the sixth record
C13_Witness ==
    /\ a_pc = "returned"
    /\ Len(a_evidence) = 6
    /\ Len(a_log) = 16
    /\ \A k \in 1..Len(a_log) : a_log[k].item # a_evidence[6]

\* ---- evidence analysis (Spec)
\* the parser failed (error outcome or exception) on every stored evidence document
AllParsesFailed ==
    /\ db_evidence # <<>>
    /\ \A i \in 1..Len(db_evidence) : db_evidence[i].parse \in {"error", "raise"}

\* C14: when evidence analysis was run for the request and the parser failed on
\* every evidence document, or the analysis reported a failure of the store or of
\* the parser, the request ends at once with the evidence-analysis error, no
\* generator and no transcript parser is invoked, the case store is not updated,
\* and no evidence record carries the parser's error as its content.
C14_EvidenceFailureIsFatal ==
    (/\ Called("analyze_case_evidence")
     /\ AllParsesFailed \/ evidence_analysis = EvStr(ErrorEvidenceText))
      => /\ EndedWith(ErrorEvidenceText)
         /\ ~Called("run_agent_simulation")
         /\ ~Called("generate_openai_simulation")
         /\ ~Called("generate_static_fallback")
         /\ ~Called("parse_simulation_into_turns")
         /\ ~Called("update_case")
         /\ \A i \in 1..Len(evidence_analysis.items) :
               evidence_analysis.items[i].content = "text"

\* ---- the validator on its own (SpecValidate)
\* the keys a result must have
ResultKeys == {"simulation_id", "simulation_text", "turns", "thinking_processes",
               "evidence_analyzed", "simulation_type", "generated_at", "status"}

\* the keys a turn must have
TurnKeys == {"turn_number", "role", "message", "timestamp", "duration"}

\* a defect the validator has to reject, in a result that has the key concerned
Defective(r) ==
    \/ ResultKeys \ DOMAIN r # {}
    \/ r.simulation_type \notin {"local_agents", "openai", "static_fallback", "hybrid"}
    \/ r.status \notin {"completed", "failed", "partial"}
    \/ r.simulation_text = Some(<< <<>> >>)
    \/ \E i \in 1..Len(r.turns) : TurnKeys \ DOMAIN r.turns[i] # {}
    \/ r.evidence_analyzed < 0
    \/ r.evidence_analyzed > 100

\* C15: the validator rejects every result that lacks one of the eight keys, whose
\* simulation_type or status is outside its set, whose transcript is empty, that
\* has a turn lacking one of the five turn keys, or whose evidence_analyzed is
\* outside 0..100; and each label a transcript path produces is accepted.
C15_ValidatorRejectsDefects ==
    /\ (~IsNull(v_verdict) /\ Defective(v_results)) => Get(v_verdict) # ""
    /\ ProducedTypes \subseteq valid_types
    /\ (~IsNull(v_verdict) /\ ~Defective(v_results) /\ ~IsNull(v_results.simulation_text)
        /\ v_results.simulation_type \in ProducedTypes) => Get(v_verdict) = ""

\* C15 witness: a result whose only defect is its second turn, which lacks a key,
\* was rejected for it
C15_Witness ==
    /\ ~IsNull(v_verdict)
    /\ ResultKeys \subseteq DOMAIN v_results
    /\ Len(v_results.turns) = 2
    /\ TurnKeys \subseteq DOMAIN v_results.turns[1]
    /\ TurnKeys \ DOMAIN v_results.turns[2] # {}
    /\ Get(v_verdict) = "Turn missing required fields"

\* the marker that introduces a turn of the role in a transcript
OriginalMarker(r) ==
    CASE r = "Judge" -> "JUDGE:"
      [] r = "Prosecutor" -> "PROSECUTOR"
      [] r = "Defense" -> "DEFENSE"
      [] r = "Witness" -> "WITNESS"
      [] r = "Court" -> "COURT:"

\* the transcript that has one line per turn: the role's marker, then the message
Reconstruct(ts) == [i \in 1..Len(ts) |-> <<OriginalMarker(ts[i].role), Blank>> \o ts[i].message]

RolesOf(ts) == [i \in 1..Len(ts) |-> ts[i].role]

\* C16: parsing the transcript rebuilt from the emitted turns (one line per turn,
\* the role's marker followed by the message) gives the same number of turns with
\* the same sequence of roles.
C16_ReparseKeepsRoles ==
    ~IsNull(p_turns) =>
        LET again == parse_simulation_into_turns(Reconstruct(Get(p_turns))) IN
        /\ Len(again) = Len(Get(p_turns))
        /\ RolesOf(again) = RolesOf(Get(p_turns))

\* C16 witness: a parse that gave at least three turns, one of a party, one whose
\* message spans two lines and one whose message holds the marker of another role
C16_Witness ==
    /\ ~IsNull(p_turns)
    /\ Len(Get(p_turns)) >= 3
    /\ \E i \in 1..Len(Get(p_turns)) : Get(p_turns)[i].role = "Prosecutor"
    /\ \E i \in 1..Len(Get(p_turns)) : EndsWith(Get(p_turns)[i].message, <<"and", " ", "more">>)
    /\ \E i \in 1..Len(Get(p_turns)) :
          \E j \in 1..Len(Get(p_turns)[i].message) : Get(p_turns)[i].message[j] = "defense"

\* C17: the turn at position k of the returned list (counted from 0) has
\* turn_number k, timestamp hour 9 + k div 4, minute (15 * k) mod 60, second 0,
\* and duration message length div 20 plus 3.
C17_DenseNumbersAndTimes ==
    ~IsNull(p_turns) =>
        \A i \in 1..Len(Get(p_turns)) :
            LET t == Get(p_turns)[i]
                k == i - 1 IN
            /\ t.turn_number = k
            /\ t.timestamp = [hh |-> 9 + (k \div 4), mm |-> (15 * k) % 60, ss |-> 0]
            /\ t.duration = (CharLen(t.message) \div 20) + 3

\* C17 witness: a transcript with a bare marker line that emitted no turn was
\* parsed into five turns, the fifth in the next hour
C17_Witness ==
    /\ ~IsNull(p_turns)
    /\ \E i \in 1..Len(p_transcript) : p_transcript[i] = <<" ", "Defense", " ">>
    /\ Len(p_transcript) = 6
    /\ Len(Get(p_turns)) = 5
    /\ Get(p_turns)[5].timestamp.hh = 10


\* what a freshly constructed agent of role r holds after analyze_case(c)
FreshMemory(r, c) == DictUpdate(EmptyDict, Analysis(r, c))

\* the members of a list
ItemsOf(seq) == {seq[i] : i \in 1..Len(seq)}

\* C18: clear_memory leaves the case memory and the thought log empty, and the
\* analyze_case that follows it returns and stores exactly the analysis a
\* freshly constructed agent of the same role computes for that case, with no
\* key issue that is not an issue of that case.
C18_ClearThenAnalyzeIsFresh ==
    /\ last_op.op = "clear" =>
         /\ DOMAIN case_memory = {}
         /\ thinking_process = <<>>
    /\ (last_op.op = "analyze" /\ last_op.after_clear) =>
         LET c == last_op.case[1]
         IN /\ DOMAIN case_memory = DOMAIN FreshMemory(role, c)
            /\ \A k \in DOMAIN case_memory : case_memory[k] = FreshMemory(role, c)[k]
            /\ \A k \in DOMAIN case_memory : last_op.returned[k] = FreshMemory(role, c)[k]
            /\ ItemsOf(case_memory["key_issues"])
                 = ItemsOf(_identify_key_issues(c, Lower(c.case_type)))
            /\ thinking_process = <<Thought(role, "analysis")>>

\* an analysis of a theft case was cleared and a contract case analysed next
C18_Witness ==
    /\ last_op.op = "analyze" /\ last_op.after_clear
    /\ DOMAIN before_clear # {}
    /\ "intent to steal" \in ItemsOf(before_clear["key_issues"])
    /\ "contract formation" \in ItemsOf(case_memory["key_issues"])


\* the transcript holds no role marker on any line (None holds none)
NoMarkerIn(t) ==
    IsNull(t) \/ \A i \in 1..Len(Get(t)) :
                    \A j \in 1..Len(Get(t)[i]) : ~IsMarkerTok(Get(t)[i][j])

\* parse_simulation_into_turns has just been called by the request
JustParsed ==
    /\ calls # <<>>
    /\ calls[Len(calls)] = "parse_simulation_into_turns"

\* C19: whenever a path hands TurnParsing a transcript without any role marker,
\* the parser returns an empty turn list and the call does not raise (the
\* request does not end in the 500 "Simulation failed" answer).
C19_NoMarkerNoTurnsNoRaise ==
    (JustParsed /\ NoMarkerIn(sim_out.transcript)) =>
        /\ response # SimulationFailed
        /\ turns = <<>>


RECURSIVE RolePairs(_)
\* the roles of n presentation / cross-examination pairs
RolePairs(n) == IF n = 0 THEN <<>> ELSE <<"Prosecutor", "Defense">> \o RolePairs(n - 1)

\* the roles of the agents speaking in a run that presents n evidence items
ProtocolRoles(n) ==
    <<"Judge", "Prosecutor", "Defense">> \o RolePairs(n) \o <<"Prosecutor", "Defense", "Judge">>

\* C20: the turns parsed from a transcript of the agent path carry the roles of
\* the agents that spoke, in protocol order (judge, prosecutor, defense, one
\* prosecutor / defense pair per presented item, prosecutor, defense, judge),
\* whatever words the utterances contain.
C20_TurnsCarrySpeakerRoles ==
    (JustParsed /\ outcome.agent = "returned") =>
        RolesOf(turns) = ProtocolRoles(Min(EvLen(evidence_analysis), EvidenceShown))


\* C21: every text respond returns is non-empty, also the post-processed text of
\* a remote or local reply whose trimmed length exceeds 10.
C21_RespondTextNonEmpty ==
    last_call.made => last_call.text # <<>>


\* analyze_case is called again with the case of the call before it
AnalyzedAgain ==
    /\ last_op.op = "analyze"
    /\ last_op'.op = "analyze"
    /\ last_op'.case = last_op.case
    /\ nops' = nops + 1

\* C22: a second analyze_case with the same case returns the same analysis and
\* leaves the stored analysis, the thought log and the role's strategy as they
\* were after the first call.
C22_AnalyzeIdempotent ==
    [][AnalyzedAgain =>
          /\ last_op'.returned = last_op.returned
          /\ case_memory' = case_memory
          /\ role_strategy' = role_strategy
          /\ thinking_process' = thinking_process]_vars


\* the results the case store holds
StoredResults == Get(Get(db_case).simulation_results)

\* C26: in a stored result of the agent path every turn whose role is Judge,
\* Prosecutor or Defense has its role as a key of the result's thinking map and
\* carries the thought log filed under it.
C26_TurnsCarryRoleThoughts ==
    (StoreHoldsThisRun /\ outcome.agent = "returned") =>
        \A i \in 1..Len(StoredResults.turns) :
            LET turn == StoredResults.turns[i] IN
            turn.role \in {"Judge", "Prosecutor", "Defense"} =>
                /\ turn.role \in DOMAIN StoredResults.thinking_processes
                /\ turn.thinking_process = StoredResults.thinking_processes[turn.role]


\* the request passed the state check of lines 297-309, so its stages ran
RunStarted == ~IsNull(case) /\ Get(case).status \in allowed_states

\* after a successful run the stored status is completed
C27_SuccessCompletes ==
    (EndedInSuccess /\ ~IsNull(db_case)) => Get(db_case).status = "completed"

\* a start request on a case whose status is not an allowed one is answered with
\* the case-state error and runs no stage
C27_CompletedRejected ==
    (pc = "done" /\ ~IsNull(case) /\ Get(case).status \notin allowed_states) =>
        /\ EndedWith("Case must be in one of these states")
        /\ calls = <<"get_case_by_id">>

\* a run that ended in error left a status from which a run can be started
C27_ErrorRestartable ==
    (EndedInError /\ RunStarted /\ ~IsNull(db_case)) =>
        Get(db_case).status \in allowed_states

\* C27: a successful run leaves the stored status completed, later start
\* requests are rejected with the case-state error before any stage while the
\* status stays so, and a run that ends in error leaves the case startable.
C27_StatusAfterRun ==
    /\ C27_SuccessCompletes
    /\ C27_CompletedRejected
    /\ C27_ErrorRestartable


\* tier 1 returned a text that passed the length test in the latest call
TierOneSucceeded ==
    /\ last_call.gemini.asked /\ ~last_call.gemini.raises
    /\ Succeeds(last_call.gemini.reply)

\* C30: a respond call attempts the local tier exactly when tier 1 did not
\* succeed and the liveness probe made at construction succeeded, whatever the
\* local provider's state is at the time of the call.
C30_LocalTierFixedAtConstruction ==
    last_call.made =>
        (last_call.ollama.asked <=> (probe_result /\ ~TierOneSucceeded))

\* C30 witness: the provider answered the probe at construction and was down at
\* the time of the call, and the call attempted the local tier all the same
C30_Witness ==
    /\ last_call.made
    /\ probe_result /\ ~last_call.up
    /\ last_call.ollama.asked
    /\ last_call.tier = "static"


\* the tokens of a text that are neither blanks nor role markers
WordsOf(l) == SelectSeq(l, LAMBDA t : t # Blank /\ ~IsMarkerTok(t))

\* the position of the marker occurring earliest in the line, 0 when it has none
EarliestMarker(l) ==
    IF \E j \in 1..Len(l) : IsMarkerTok(l[j])
    THEN CHOOSE j \in 1..Len(l) : IsMarkerTok(l[j]) /\ \A i \in 1..(j - 1) : ~IsMarkerTok(l[i])
    ELSE 0

\* closing the open turn of the reading below: it is emitted when it has words
KeepAllClose(st) ==
    IF st.role # NoRole /\ st.words # <<>>
    THEN [st EXCEPT !.done = Append(st.done, [role |-> st.role, words |-> st.words])]
    ELSE st

\* one line read as the property has it: the earliest marker gives the role and
\* all other text of the line, before and after the marker, goes to the turn
KeepAllLine(st, raw) ==
    LET line == Strip(raw) IN
    IF line = <<>> \/ IsSeparatorTok(Head(line)) THEN st
    ELSE IF EarliestMarker(line) # 0
    THEN [KeepAllClose(st) EXCEPT !.role = RoleOfMarkerTok(line[EarliestMarker(line)]),
                                  !.words = WordsOf(line)]
    ELSE IF st.role # NoRole THEN [st EXCEPT !.words = st.words \o WordsOf(line)]
    ELSE st

RECURSIVE KeepAllLines(_, _)
KeepAllLines(st, lines) ==
    IF lines = <<>> THEN st ELSE KeepAllLines(KeepAllLine(st, Head(lines)), Tail(lines))

\* roles and words of the turns of a transcript read without dropping any text
KeepAllTurns(lines) ==
    KeepAllClose(KeepAllLines([done |-> <<>>, role |-> NoRole, words |-> <<>>], lines)).done

\* C24: the emitted turns account for every word of every line from the first
\* marked line on: each turn has the role of the earliest marker of the line that
\* opened it and its message holds all other text of that line, the text before
\* the marker included, followed by the continuation lines.
C24_NoTextDropped ==
    (JustParsed /\ ~IsNull(sim_out.transcript)) =>
        [i \in 1..Len(turns) |-> [role |-> turns[i].role, words |-> WordsOf(turns[i].message)]]
            = KeepAllTurns(Get(sim_out.transcript))


\* the step is a call of clear_memory
ClearStep == last_op'.op = "clear" /\ nops' = nops + 1

\* C23: every step of an agent other than clear_memory leaves the thought log
\* as it was or extends it at the end: the log before the step is a prefix of
\* the log after it.
C23_ThoughtLogAppendOnly ==
    [][ClearStep \/ IsPrefix(thinking_process, thinking_process')]_vars

\* the categories found in the thought log
LoggedCategories == {thinking_process[i].category : i \in 1..Len(thinking_process)}

\* C23 witness: a log grown by an opening statement, evidence and a closing
\* argument, with a provider failure in between
C23_Witness ==
    /\ nops = 3
    /\ {"analysis", "strategy", "closing", "gemini_error", "static_fallback"}
          \subseteq LoggedCategories
    /\ LoggedCategories \cap {"evidence", "cross_examination"} # {}
    /\ Len(thinking_process) >= 9


\* the closing-argument or judgment prompt a freshly constructed agent builds
FreshPrompt(r) ==
    IF r = "prosecutor"
    THEN [NoPrompt EXCEPT !.action = "closing", !.theory = "Defendant is guilty as charged",
                          !.law = <<"burden of proof">>]
    ELSE IF r = "defense attorney"
    THEN [NoPrompt EXCEPT !.action = "closing", !.theory = "Client is innocent",
                          !.law = <<"reasonable doubt", "presumption of innocence">>]
    ELSE [NoPrompt EXCEPT !.action = "final_judgment", !.case_type = "unknown",
                          !.standard = "applicable legal standard",
                          !.law = <<"general legal principles">>]

\* C25: after clear_memory the agent holds nothing of the previous run: the
\* strategy, the evidence-strength map, the reasonable-doubt points, the
\* rulings and the decisions are empty, and a closing argument or judgment
\* requested next is built from the prompt a fresh agent would build.
C25_ClearLeavesNoRoleState ==
    /\ last_op.op = "clear" =>
         /\ DOMAIN role_strategy = {}
         /\ DOMAIN evidence_strength_map = {}
         /\ reasonable_doubt_points = <<>>
         /\ DOMAIN evidence_rulings = {}
         /\ judicial_decisions = <<>>
    /\ (last_op.after_clear /\ last_op.op \in {"make_closing_argument", "make_final_judgment"})
         => last_prompt = FreshPrompt(role)


\* the judge renders judgment on the case court was opened on
JudgmentOnOpenedCase ==
    /\ role = "judge"
    /\ last_op.op = "make_final_judgment"
    /\ last_op.case # <<>>

\* C28: when the judge renders the final judgment in a run in which court was
\* opened on a case, the prompt carries the label the case-type lookup gives for
\* that case: beyond a reasonable doubt for criminal, preponderance of the
\* evidence for civil, the default label for a type that is not listed.
C28_JudgmentPromptCarriesStandard ==
    JudgmentOnOpenedCase =>
        LET case_type == Lower(last_op.case[1].case_type) IN
        /\ last_prompt.action = "final_judgment"
        /\ last_prompt.standard = _get_legal_standard(last_op.case[1].case_type)
        /\ case_type = "criminal" => last_prompt.standard = "beyond a reasonable doubt"
        /\ case_type = "civil" => last_prompt.standard = "preponderance of the evidence"
        /\ case_type = "family" => last_prompt.standard = "applicable legal standard"

\* C28 witness: judgment on a civil case stored as "Civil", after a ruling
C28_Witness ==
    /\ JudgmentOnOpenedCase
    /\ last_op.case[1].case_type = "Civil"
    /\ last_prompt.standard = "preponderance of the evidence"
    /\ last_prompt.rulings = 1


\* the prosecutor works on a criminal case whose description mentions theft
ProsecutingTheft ==
    /\ role = "prosecutor"
    /\ last_op.case # <<>>
    /\ Lower(last_op.case[1].case_type) = "criminal"
    /\ "theft" \in last_op.case[1].words

\* C29: once the prosecutor has analysed a criminal case whose description
\* contains "theft", whatever evidence list came with it and whatever other
\* keywords the description holds, the case theory is the theft narrative, and
\* the opening and closing prompts carry that narrative.
C29_TheftTheoryInPrompts ==
    ProsecutingTheft =>
        /\ DictGet(role_strategy, "main_theory", "") = "took property"
        /\ last_op.op \in {"make_opening_statement", "make_closing_argument"}
              => last_prompt.theory = "took property"

\* C29 witness: the closing prompt for a case that mentions theft and assault
C29_Witness ==
    /\ ProsecutingTheft
    /\ "assault" \in last_op.case[1].words
    /\ last_op.op = "make_closing_argument"
    /\ last_prompt.theory = "took property"

====
